---- MODULE Spec2Model ----
(***************************************************************************)
(* Catalog replication service: source store -> local cache -> ad catalog. *)
(* The model covers the push-notification endpoint (handleWebhook), the    *)
(* event processor (processWebhookEvent and its handlers), the targeted    *)
(* path (syncSingleProduct / syncVariableProduct), the bulk path           *)
(* (performInitialSync), the retailer-id policy and the mapper.            *)
(*                                                                         *)
(* Scheduling: the service is one JavaScript event loop.  A handler runs   *)
(* without interruption from one network await to the next, so every       *)
(* action below is "from a network response to the next network request". *)
(***************************************************************************)
EXTENDS Integers, Sequences, FiniteSets, TLC

\* ------------------------------------------------------------------ bounds
MaxEvents == 2        \* accepted push notifications per behaviour
MaxBulk == 1          \* bulk runs per behaviour
MaxFaults == 1        \* failing network calls per behaviour
MaxGateEvents == 1    \* accepted notifications in the endpoint specification
MaxRuns == 2          \* bulk runs in a row over an unchanged source store

\* ------------------------------------------------------- value conventions
NoQty == 0 - 1                  \* stock_quantity / inventory that is null or undefined
NullStr == "NULL"               \* a NULL text column
NoId == <<>>                    \* an undefined retailer id / item_group_id
Wc(id) == <<"wc", id>>          \* `wc_${id}`
WcMain(id) == <<"wc", id, "main">>   \* `wc_${id}_main`

\* ------------------------------------------------------ source-store shape
\* Product 1 is a top-level product that the merchant may keep simple or turn
\* into a variable product that has no variations yet; product 2 is a variable
\* product whose only variation is product 3.
ProductIds == {1, 2, 3}
ParentOf(id) == IF id = 3 THEN 2 ELSE 0
ChildrenOf(id) == {c \in ProductIds : ParentOf(c) = id}
TypesOf(id) == IF id = 1 THEN {"simple", "variable"}
               ELSE IF id = 2 THEN {"variable"} ELSE {"variation"}
StockVals == {<<"instock", 1>>, <<"instock", 0>>, <<"outofstock", 0>>}

NoProduct == [id |-> 0, type |-> "none", parent_id |-> 0, stock_status |-> "none",
              stock_quantity |-> NoQty, variations |-> <<>>]

RECURSIVE SetToSeq(_)
SetToSeq(S) == IF S = {} THEN <<>>
               ELSE LET m == CHOOSE x \in S : \A y \in S : x <= y
                    IN <<m>> \o SetToSeq(S \ {m})

\* The WCProduct the source store serves (and pushes) for product id in source state w.
SourceProduct(w, id) ==
  [id |-> id, type |-> w[id].type, parent_id |-> ParentOf(id),
   stock_status |-> w[id].stock_status, stock_quantity |-> w[id].stock_quantity,
   variations |-> IF w[id].type = "variable"
                  THEN SetToSeq({c \in ChildrenOf(id) : w[c].life = "live"})
                  ELSE <<>>]

\* ------------------------------------------------------ retailer-id policy
\* (variant: the parent's id is used when a parent is passed)
generateMetaRetailerId_parentId(product, parent) ==
  IF parent # NoProduct THEN Wc(parent.id)
  ELSE IF product.parent_id > 0 THEN Wc(product.id)
  ELSE IF product.type = "variable" THEN WcMain(product.id)
  ELSE Wc(product.id)

\* utils/retailer-id.ts generateMetaRetailerId(product, parent?)
generateMetaRetailerId(product, parent) ==
  IF product.parent_id > 0 \/ parent # NoProduct THEN Wc(product.id)
  ELSE IF product.type = "variable" THEN WcMain(product.id)
  ELSE Wc(product.id)

\* utils/retailer-id.ts generateMetaRetailerIdFromInfo(productId, type?, parentId?)
generateMetaRetailerIdFromInfo(productId, type, parentId) ==
  IF type = "variation" \/ parentId > 0 THEN Wc(productId)
  ELSE IF type = "variable" THEN WcMain(productId)
  ELSE Wc(productId)

\* db/products.ts: the private copy used by upsertProduct (it ignores `parent`)
DbGenerateMetaRetailerId(product, parent) ==
  IF product.parent_id > 0 THEN Wc(product.id)
  ELSE IF product.type = "variable" THEN WcMain(product.id)
  ELSE Wc(product.id)

\* utils/retailer-id.ts generateItemGroupId(product, parent?)
generateItemGroupId(product, parent) ==
  IF parent # NoProduct THEN Wc(parent.id)
  ELSE IF product.type = "variable" THEN Wc(product.id)
  ELSE NoId

\* sync/product-sync.ts mapAvailability(stockStatus)
mapAvailability(stockStatus) ==
  CASE stockStatus = "instock" -> "in stock"
    [] stockStatus = "onbackorder" -> "preorder"
    [] OTHER -> "out of stock"

\* ------------------------------------------------------------------ mapper
\* woocommerce.ts mapToMetaProduct(product, parent?, style): the fields the
\* replication engine and the feed read.
mapToMetaProduct(product, parent) ==
  [id |-> generateMetaRetailerId(product, parent),
   availability |-> IF product.stock_status = "instock" THEN "in stock"
                    ELSE IF product.stock_status = "onbackorder" THEN "preorder"
                    ELSE "out of stock",
   item_group_id |-> generateItemGroupId(product, parent),
   inventory |-> IF product.stock_status = "outofstock" THEN 0
                 ELSE product.stock_quantity]

\* meta/catalog.ts createBatchItem(product, existsInCatalog); item_group_id is
\* part of the data block of a CREATE only.
createBatchItem(mp, existsInCatalog) ==
  [method |-> IF existsInCatalog THEN "UPDATE" ELSE "CREATE",
   retailer_id |-> mp.id,
   availability |-> mp.availability,
   inventory |-> mp.inventory,
   item_group_id |-> IF ~existsInCatalog THEN mp.item_group_id ELSE NoId]

\* (variant: the stock helper removes the item instead of updating it)
StockItem_delete(retailerId, availability, inventory) ==
  [method |-> "DELETE", retailer_id |-> retailerId, availability |-> availability,
   inventory |-> inventory, item_group_id |-> NoId]

\* meta/client.ts updateProductStock(retailerId, availability, inventory): the item it builds
StockItem(retailerId, availability, inventory) ==
  [method |-> "UPDATE", retailer_id |-> retailerId, availability |-> availability,
   inventory |-> inventory, item_group_id |-> NoId]

\* the data block of a batch item (the fields the model follows; none is `id`)
ItemData(item) ==
  [availability |-> item.availability, inventory |-> item.inventory]
  @@ (IF item.item_group_id # NoId THEN [item_group_id |-> item.item_group_id]
      ELSE <<>>)

\* (variant: the data block is sent as the item carries it, without an id)
batchUpsertProducts_noId(items) ==
  [item_type |-> "PRODUCT_ITEM",
   requests |-> [i \in DOMAIN items |->
                   [method |-> items[i].method, retailer_id |-> items[i].retailer_id,
                    data |-> ItemData(items[i])]]]

\* meta/client.ts batchUpsertProducts(items): requestBody; in
\* `{id: item.retailer_id, ...item.data}` a field of item.data wins over id
batchUpsertProducts(items) ==
  [item_type |-> "PRODUCT_ITEM",
   requests |-> [i \in DOMAIN items |->
                   [method |-> items[i].method, retailer_id |-> items[i].retailer_id,
                    data |-> ItemData(items[i]) @@ [id |-> items[i].retailer_id]]]]

\* sync/product-sync.ts hasStockChanged(product, syncStatus); NoRow stands for null
NoRow == [product_id |-> 0, meta_retailer_id |-> NoId, sync_status |-> "none",
          meta_product_exists |-> 0, last_availability |-> NullStr,
          last_inventory |-> NoQty, last_error |-> NullStr]

hasStockChanged(product, syncRow) ==
  IF syncRow = NoRow THEN TRUE
  ELSE LET newAvailability == mapAvailability(product.stock_status)
           newInventory == IF product.stock_quantity = NoQty THEN 0
                           ELSE product.stock_quantity
       IN syncRow.last_availability # newAvailability
          \/ syncRow.last_inventory # newInventory

\* ------------------------------------------------------------- cache store
NoProductRow == [id |-> 0, parent_id |-> 0, type |-> "none", meta_retailer_id |-> NoId,
                 stock_status |-> "none", stock_quantity |-> NoQty, variations |-> <<>>]

\* db/products.ts upsertProduct(product, parent?): INSERT ... ON CONFLICT(id) DO UPDATE
upsertProduct(tbl, product, parent) ==
  [x \in DOMAIN tbl \cup {product.id} |->
     IF x = product.id
     THEN [id |-> product.id, parent_id |-> product.parent_id, type |-> product.type,
           meta_retailer_id |-> DbGenerateMetaRetailerId(product, parent),
           stock_status |-> product.stock_status,
           stock_quantity |-> product.stock_quantity,
           variations |-> product.variations]
     ELSE tbl[x]]

\* db/products.ts getProductById(id)
getProductById(tbl, id) == IF id \in DOMAIN tbl THEN tbl[id] ELSE NoProductRow

\* The sync-status table is a sequence in rowid order (AUTOINCREMENT key).
Opt(data, f, default) == IF f \in DOMAIN data THEN data[f] ELSE default

HasRid(tbl, rid) == \E i \in 1..Len(tbl) : tbl[i].meta_retailer_id = rid

\* (variant: a plain INSERT, no conflict clause and no unique retailer id)
upsertSyncStatus_insertOnly(tbl, productId, rid, data) ==
  Append(tbl, [product_id |-> productId, meta_retailer_id |-> rid,
               sync_status |-> Opt(data, "sync_status", "pending"),
               meta_product_exists |-> Opt(data, "meta_product_exists", 0),
               last_availability |-> Opt(data, "last_availability", NullStr),
               last_inventory |-> Opt(data, "last_inventory", NoQty),
               last_error |-> Opt(data, "last_error", NullStr)])

\* db/sync-status.ts upsertSyncStatus(productId, metaRetailerId, data):
\* INSERT ... ON CONFLICT(meta_retailer_id) DO UPDATE with the COALESCE rules.
upsertSyncStatus(tbl, productId, rid, data) ==
  LET excluded == [product_id |-> productId, meta_retailer_id |-> rid,
                   sync_status |-> Opt(data, "sync_status", "pending"),
                   meta_product_exists |-> Opt(data, "meta_product_exists", 0),
                   last_availability |-> Opt(data, "last_availability", NullStr),
                   last_inventory |-> Opt(data, "last_inventory", NoQty),
                   last_error |-> Opt(data, "last_error", NullStr)]
  IN IF HasRid(tbl, rid)
     THEN [i \in 1..Len(tbl) |->
             IF tbl[i].meta_retailer_id = rid
             THEN [tbl[i] EXCEPT
                     !.sync_status = excluded.sync_status,
                     !.meta_product_exists = excluded.meta_product_exists,
                     !.last_availability = IF excluded.last_availability # NullStr
                                           THEN excluded.last_availability ELSE @,
                     !.last_inventory = IF excluded.last_inventory # NoQty
                                        THEN excluded.last_inventory ELSE @,
                     !.last_error = excluded.last_error]
             ELSE tbl[i]]
     ELSE Append(tbl, excluded)

\* (variant: foreign keys are not enforced)
SyncInsertFails_unenforced(prodTbl, tbl, productId, rid) == FALSE

\* schema: FOREIGN KEY (product_id) REFERENCES products(id), PRAGMA foreign_keys = ON:
\* inserting a sync-status row for a product id that has no products row throws.
SyncInsertFails(prodTbl, tbl, productId, rid) ==
  ~HasRid(tbl, rid) /\ productId \notin DOMAIN prodTbl

\* db/sync-status.ts getSyncStatusByProductId(productId): first row by rowid, or null
getSyncStatusByProductId(tbl, productId) ==
  LET S == {i \in 1..Len(tbl) : tbl[i].product_id = productId}
  IN IF S = {} THEN NoRow ELSE tbl[CHOOSE i \in S : \A j \in S : i <= j]

\* (variant: last_error is left as it was)
markSynced_keepError(tbl, rid, availability, inventory) ==
  [i \in 1..Len(tbl) |->
     IF tbl[i].meta_retailer_id = rid
     THEN [tbl[i] EXCEPT !.sync_status = "synced", !.meta_product_exists = 1,
                         !.last_availability = availability,
                         !.last_inventory = inventory]
     ELSE tbl[i]]

\* db/sync-status.ts markSynced(metaRetailerId, availability, inventory)
markSynced(tbl, rid, availability, inventory) ==
  [i \in 1..Len(tbl) |->
     IF tbl[i].meta_retailer_id = rid
     THEN [tbl[i] EXCEPT !.sync_status = "synced", !.meta_product_exists = 1,
                         !.last_availability = availability,
                         !.last_inventory = inventory, !.last_error = NullStr]
     ELSE tbl[i]]

\* db/sync-status.ts markError(metaRetailerId, error)
markError(tbl, rid, error) ==
  [i \in 1..Len(tbl) |->
     IF tbl[i].meta_retailer_id = rid
     THEN [tbl[i] EXCEPT !.sync_status = "error", !.last_error = error]
     ELSE tbl[i]]

SeqFilterOut(tbl, productId) ==
  LET keep(r) == r.product_id # productId IN SelectSeq(tbl, keep)

\* db/sync-status.ts deleteSyncStatus(productId)
deleteSyncStatus(tbl, productId) == SeqFilterOut(tbl, productId)

\* db/products.ts deleteProduct(id): the row, and by ON DELETE CASCADE its sync-status rows
deleteProduct(d, id) ==
  [d EXCEPT !.products = [x \in DOMAIN @ \ {id} |-> @[x]],
            !.sync = SeqFilterOut(@, id)]

\* (variant: the old values are read from the row the event itself has written)
logWebhookEvent_afterWrite(tbl, topic, actionType, product, existing) ==
  LET oldQ == product.stock_quantity
      newQ == product.stock_quantity
  IN Append(tbl, [topic |-> topic, wc_product_id |-> product.id,
                  product_type |-> product.type, action_type |-> actionType,
                  old_stock_status |-> product.stock_status,
                  new_stock_status |-> product.stock_status,
                  old_stock_quantity |-> oldQ, new_stock_quantity |-> newQ,
                  stock_change |-> IF oldQ # NoQty /\ newQ # NoQty
                                   THEN [set |-> TRUE, v |-> newQ - oldQ]
                                   ELSE [set |-> FALSE, v |-> 0],
                  processed |-> 0, error |-> NullStr])

\* webhooks/events: logWebhookEvent(topic, wcProductId, payload, signature, details)
logWebhookEvent(tbl, topic, actionType, product, existing) ==
  LET oldQ == existing.stock_quantity
      newQ == product.stock_quantity
  IN Append(tbl, [topic |-> topic, wc_product_id |-> product.id,
                  product_type |-> product.type, action_type |-> actionType,
                  old_stock_status |-> IF existing = NoProductRow THEN NullStr
                                       ELSE existing.stock_status,
                  new_stock_status |-> product.stock_status,
                  old_stock_quantity |-> oldQ, new_stock_quantity |-> newQ,
                  stock_change |-> IF oldQ # NoQty /\ newQ # NoQty
                                   THEN [set |-> TRUE, v |-> newQ - oldQ]
                                   ELSE [set |-> FALSE, v |-> 0],
                  processed |-> 0, error |-> NullStr])

\* webhooks/events: markWebhookProcessed(eventId)
markWebhookProcessed(tbl, eventId) == [tbl EXCEPT ![eventId].processed = 1]

\* (variant: an errored event is also flagged processed)
markWebhookError_processed(tbl, eventId, error) ==
  [tbl EXCEPT ![eventId].error = error, ![eventId].processed = 1]

\* webhooks/events: markWebhookError(eventId, error)
markWebhookError(tbl, eventId, error) == [tbl EXCEPT ![eventId].error = error]

\* ----------------------------------------------------- event-processing task
\* One record per accepted notification: where the promise chain started by
\* handleWebhook is suspended (pc names the network call it awaits).
\*   d : [products, sync, events, sent, mapped]   the stores a step may write
\*   t : the task record
IdleTask == [pc |-> "done", eid |-> 0, prod |-> NoProduct, cur |-> NoProduct,
             par |-> NoProduct, queue |-> <<>>, exists |-> FALSE, failed |-> "none"]

Finished(t) == [IdleTask EXCEPT !.eid = t.eid, !.failed = t.failed]

\* handler.ts .then(() => markWebhookProcessed(eventId))
Resolve(d, t) ==
  [d |-> [d EXCEPT !.events = markWebhookProcessed(@, t.eid)], t |-> Finished(t)]

\* handler.ts .catch((error) => markWebhookError(eventId, errorMsg))
Reject(d, t, error) ==
  [d |-> [d EXCEPT !.events = markWebhookError(@, t.eid, error)],
   t |-> Finished([t EXCEPT !.failed = error])]

\* meta/client.ts batchUpsertProducts(items): the request that leaves the service
Send(d, by, items) == [d EXCEPT !.sent = Append(@, [by |-> by, items |-> items])]

\* a call of mapToMetaProduct, recorded with its arguments
Mapped(d, product, parent, path) ==
  [d EXCEPT !.mapped = @ \cup {[product |-> product, parent |-> parent.id, path |-> path,
                                out |-> mapToMetaProduct(product, parent)]}]

RECURSIVE SyncEnter(_, _, _, _), Continue(_, _)

\* sync/product-sync.ts syncSingleProduct(product, parent?) up to its first await
SyncEnter(d, t, product, parent) ==
  LET d1 == [d EXCEPT !.products = upsertProduct(@, product, parent)]
      syncStatus == getSyncStatusByProductId(d1.sync, product.id)
      t1 == [t EXCEPT !.cur = product, !.par = parent]
  IN IF product.stock_status # "instock"
     THEN IF syncStatus.meta_product_exists # 0
          THEN LET metaProduct == [mapToMetaProduct(product, parent) EXCEPT
                                     !.availability = "out of stock", !.inventory = 0]
               IN [d |-> Send(Mapped(d1, product, parent, "event"), t.eid,
                              <<createBatchItem(metaProduct, TRUE)>>),
                   t |-> [t1 EXCEPT !.pc = "wBatchOOS", !.exists = TRUE]]
          ELSE Continue(d1, t1)
     ELSE IF ~hasStockChanged(product, syncStatus)
          THEN Continue(d1, t1)
          ELSE [d |-> Mapped(d1, product, parent, "event"),
                t |-> [t1 EXCEPT !.pc = "wLookup"]]

\* what runs after one syncSingleProduct returned: the next variation of
\* syncVariableProduct's loop, or the end of the handler
Continue(d, t) ==
  IF t.queue = <<>> THEN Resolve(d, t)
  ELSE SyncEnter(d, [t EXCEPT !.queue = Tail(@)], Head(t.queue), t.prod)

\* processor.ts handleProductCreated(product)
handleProductCreated(d, t, product) ==
  LET d1 == [d EXCEPT !.products = upsertProduct(@, product, NoProduct)]
  IN IF product.stock_status = "instock"
     THEN IF product.type = "variable" /\ Len(product.variations) > 0
          THEN [d |-> d1, t |-> [t EXCEPT !.pc = "wVariations"]]
          ELSE SyncEnter(d1, t, product, NoProduct)
     ELSE Resolve(d1, t)

\* processor.ts handleProductUpdated(product)
handleProductUpdated(d, t, product) ==
  LET isVariation == product.type = "variation" \/ product.parent_id > 0
      syncStatus == getSyncStatusByProductId(d.sync, product.id)
      d1 == [d EXCEPT !.products = upsertProduct(@, product, NoProduct)]
      isNowInStock == product.stock_status = "instock"
      existsInMeta == syncStatus.meta_product_exists = 1
      metaRetailerId == generateMetaRetailerIdFromInfo(product.id, product.type,
                                                       product.parent_id)
  IN IF product.type = "variable" /\ Len(product.variations) > 0
     THEN [d |-> d1, t |-> [t EXCEPT !.pc = "wVariations"]]
     ELSE IF isVariation
     THEN IF product.parent_id > 0
          THEN [d |-> d1, t |-> [t EXCEPT !.pc = "wParent"]]
          ELSE Resolve(d1, t)
     ELSE IF isNowInStock
     THEN SyncEnter(d1, t, product, NoProduct)
     ELSE IF existsInMeta
     THEN [d |-> Send(d1, t.eid, <<StockItem(metaRetailerId, "out of stock", 0)>>),
           t |-> [t EXCEPT !.pc = "wStockUpd"]]
     ELSE Resolve(d1, t)

\* processor.ts handleProductDeleted(product)
handleProductDeleted(d, t, product) ==
  LET syncStatus == getSyncStatusByProductId(d.sync, product.id)
      metaRetailerId == generateMetaRetailerIdFromInfo(product.id, product.type,
                                                       product.parent_id)
      d2 == [deleteProduct(d, product.id) EXCEPT !.sync = deleteSyncStatus(@, product.id)]
  IN IF syncStatus.meta_product_exists # 0
     THEN [d |-> Send(d, t.eid, <<StockItem(metaRetailerId, "out of stock", 0)>>),
           t |-> [t EXCEPT !.pc = "wStockDel"]]
     ELSE Resolve(d2, t)

\* processor.ts handleProductRestored(product)
handleProductRestored(d, t, product) == handleProductCreated(d, t, product)

\* processor.ts processWebhookEvent(topic, productData), up to its first await
processWebhookEvent(d, t, topic, productData) ==
  IF topic[1] # "product" THEN Resolve(d, t)
  ELSE CASE topic[2] = "created" -> handleProductCreated(d, t, productData)
         [] topic[2] = "updated" -> handleProductUpdated(d, t, productData)
         [] topic[2] = "deleted" -> handleProductDeleted(d, t, productData)
         [] topic[2] = "restored" -> handleProductRestored(d, t, productData)
         [] OTHER -> Resolve(d, t)

\* ---------------------------------------------------------- network replies
\* The first failure of a task, kept for the record: "transport" (a call threw),
\* "toplevel" (the batch reply carried a top-level error), "validation" (the
\* reply flagged the item), "constraint" (the cache store refused a write).
Fail(t, why) == [t EXCEPT !.failed = IF @ = "none" THEN why ELSE @]

IsLive(w, id) == id \in ProductIds /\ w[id].life = "live"

\* GET /products/<id>/variations as syncVariableProduct and performInitialSync read it
FetchedVariations(w, product) ==
  LET ids == SetToSeq({c \in ChildrenOf(product.id) : w[c].life = "live"})
  IN [i \in 1..Len(ids) |->
        [SourceProduct(w, ids[i]) EXCEPT !.parent_id = product.id, !.type = "variation"]]

\* what the network can answer to the call a task is waiting for
Answers(t, w, m) ==
  LET rid == generateMetaRetailerId(t.cur, t.par)
  IN CASE t.pc = "wVariations" -> IF IsLive(w, t.prod.id) THEN {"ok"} ELSE {"throw"}
       [] t.pc = "wParent" -> IF IsLive(w, t.prod.parent_id) THEN {"ok"} ELSE {"throw"}
       [] t.pc = "wLookup" -> IF rid \in m THEN {"row"} ELSE {"none"}
       [] t.pc \in {"wBatch", "wBatchOOS"} -> {"handles", "valid"}
       [] t.pc \in {"wStockUpd", "wStockDel"} -> {"handles"}
       [] OTHER -> {}

\* ... and how the call can fail
Failures(t) ==
  CASE t.pc \in {"wVariations", "wParent"} -> {"throw"}
    [] t.pc = "wLookup" -> {"error", "throw"}
    [] t.pc \in {"wBatch", "wBatchOOS"} -> {"valerr", "error", "throw"}
    [] t.pc \in {"wStockUpd", "wStockDel"} -> {"error", "throw"}
    [] OTHER -> {}

\* syncVariableProduct after `await fetchWooCommerce(.../variations)`
AfterVariations(d, t, w, answer) ==
  IF answer = "throw" THEN Resolve(d, Fail(t, "transport"))
  ELSE Continue(d, [t EXCEPT !.queue = FetchedVariations(w, t.prod)])

\* handleProductUpdated after `await fetchWooCommerce(/products/<parentId>)`
AfterParent(d, t, w, answer) ==
  IF answer = "throw" THEN SyncEnter(d, t, t.prod, NoProduct)
  ELSE LET product == [t.prod EXCEPT !.type = "variation"]
       IN SyncEnter(d, [t EXCEPT !.prod = product], product,
                    SourceProduct(w, t.prod.parent_id))

\* syncSingleProduct after `await getProductByRetailerId(metaRetailerId)`
AfterLookup(d, t, answer) ==
  LET metaRetailerId == generateMetaRetailerId(t.cur, t.par)
      metaProduct == mapToMetaProduct(t.cur, t.par)
      existsInMeta == answer = "row"
      d1 == [d EXCEPT !.sync = upsertSyncStatus(@, t.cur.id, metaRetailerId,
                                  [sync_status |-> "pending",
                                   meta_product_exists |-> IF existsInMeta THEN 1 ELSE 0])]
  IN IF answer = "throw" THEN Continue(d, Fail(t, "transport"))
     ELSE IF SyncInsertFails(d.products, d.sync, t.cur.id, metaRetailerId)
     THEN Continue(d, Fail(t, "constraint"))
     ELSE [d |-> Send(d1, t.eid, <<createBatchItem(metaProduct, existsInMeta)>>),
           t |-> [t EXCEPT !.pc = "wBatch", !.exists = existsInMeta]]

\* (variant: a reply with handles only is not taken as success; the row waits)
AfterBatch_deferred(d, t, answer) ==
  LET metaRetailerId == generateMetaRetailerId(t.cur, t.par)
      metaProduct == mapToMetaProduct(t.cur, t.par)
  IN CASE answer = "throw" -> Continue(d, Fail(t, "transport"))
       [] answer = "error" ->
            Continue([d EXCEPT !.sync = markError(@, metaRetailerId, "toplevel")],
                     Fail(t, "toplevel"))
       [] answer = "valerr" ->
            Continue([d EXCEPT !.sync = markError(@, metaRetailerId, "validation")],
                     Fail(t, "validation"))
       [] answer = "handles" -> Continue(d, t)
       [] OTHER ->
            Continue([d EXCEPT !.sync = markSynced(@, metaRetailerId,
                                          metaProduct.availability, metaProduct.inventory)],
                     t)

\* syncSingleProduct after `await batchUpsertProducts([item])`, in-stock branch
AfterBatch(d, t, answer) ==
  LET metaRetailerId == generateMetaRetailerId(t.cur, t.par)
      metaProduct == mapToMetaProduct(t.cur, t.par)
  IN CASE answer = "throw" -> Continue(d, Fail(t, "transport"))
       [] answer = "error" ->
            Continue([d EXCEPT !.sync = markError(@, metaRetailerId, "toplevel")],
                     Fail(t, "toplevel"))
       [] answer = "valerr" ->
            Continue([d EXCEPT !.sync = markError(@, metaRetailerId, "validation")],
                     Fail(t, "validation"))
       [] OTHER ->
            Continue([d EXCEPT !.sync = markSynced(@, metaRetailerId,
                                          metaProduct.availability, metaProduct.inventory)],
                     t)

\* syncSingleProduct after `await batchUpsertProducts([item])`, out-of-stock branch
AfterBatchOOS(d, t, answer) ==
  LET metaRetailerId == generateMetaRetailerId(t.cur, t.par)
  IN CASE answer = "throw" -> Continue(d, Fail(t, "transport"))
       [] answer = "error" ->
            Continue([d EXCEPT !.sync = markError(@, metaRetailerId, "toplevel")],
                     Fail(t, "toplevel"))
       [] OTHER ->
            Continue([d EXCEPT !.sync = markSynced(@, metaRetailerId, "out of stock", 0)],
                     IF answer = "valerr" THEN Fail(t, "validation") ELSE t)

\* (variant: the stock update is sent but sync-status is not written)
AfterStockUpd_unrecorded(d, t, answer) ==
  IF answer = "throw" THEN Reject(d, t, "transport")
  ELSE Resolve(d, IF answer = "error" THEN Fail(t, "toplevel") ELSE t)

\* handleProductUpdated after `await updateProductStock(...)`
AfterStockUpd(d, t, answer) ==
  LET metaRetailerId == generateMetaRetailerIdFromInfo(t.prod.id, t.prod.type,
                                                       t.prod.parent_id)
  IN IF answer = "throw" THEN Reject(d, t, "transport")
     ELSE Resolve([d EXCEPT !.sync = markSynced(@, metaRetailerId, "out of stock", 0)],
                  IF answer = "error" THEN Fail(t, "toplevel") ELSE t)

\* (variant: after the stock update the cache rows are kept)
AfterStockDel_keepRows(d, t, answer) ==
  IF answer = "throw" THEN Reject(d, t, "transport")
  ELSE Resolve(d, IF answer = "error" THEN Fail(t, "toplevel") ELSE t)

\* handleProductDeleted after `await updateProductStock(...)`
AfterStockDel(d, t, answer) ==
  IF answer = "throw" THEN Reject(d, t, "transport")
  ELSE Resolve([deleteProduct(d, t.prod.id) EXCEPT
                  !.sync = deleteSyncStatus(@, t.prod.id)],
               IF answer = "error" THEN Fail(t, "toplevel") ELSE t)

Resume(d, t, w, answer) ==
  CASE t.pc = "wVariations" -> AfterVariations(d, t, w, answer)
    [] t.pc = "wParent" -> AfterParent(d, t, w, answer)
    [] t.pc = "wLookup" -> AfterLookup(d, t, answer)
    [] t.pc = "wBatch" -> AfterBatch(d, t, answer)
    [] t.pc = "wBatchOOS" -> AfterBatchOOS(d, t, answer)
    [] t.pc = "wStockUpd" -> AfterStockUpd(d, t, answer)
    [] t.pc = "wStockDel" -> AfterStockDel(d, t, answer)

\* the ad catalog applies a CREATE it accepted
Applied(m, t, answer) ==
  IF t.pc = "wBatch" /\ answer \in {"handles", "valid"} /\ ~t.exists
  THEN m \cup {generateMetaRetailerId(t.cur, t.par)}
  ELSE m

\* ---------------------------------------------------------------- bulk run
BATCH_SIZE == 1000

Min(a, b) == IF a < b THEN a ELSE b

NoReport == [totalProducts |-> 0, inStock |-> 0, synced |-> 0, created |-> 0,
             updated |-> 0, errors |-> 0, skipped |-> 0]

\* bookkeeping of the model: what the previous run left behind (sync-status table,
\* report, how it ended), and the reply the last chunk got
NoBefore == [sync |-> <<>>, report |-> NoReport, ended |-> "none"]
NoReply == [answer |-> "none", bad |-> {}]

\* One record for performInitialSync: where it is suspended, its locals, and how
\* the last run ended ("none", "returned" or "threw").
IdleBulk == [pc |-> "idle", runs |-> 0, ended |-> "none", wcProducts |-> <<>>, idx |-> 1,
             catalogState |-> {}, batchItems |-> <<>>, productIdMap |-> <<>>,
             offset |-> 0, report |-> NoReport, before |-> NoBefore, reply |-> NoReply]

BulkEnd(b, how) == [IdleBulk EXCEPT !.runs = b.runs, !.ended = how, !.report = b.report,
                                    !.before = b.before, !.reply = b.reply]

\* GET /products?stock_status=instock, all pages (fetchAllProducts): the
\* top-level products of the source store that are in stock
FetchedProducts(w) ==
  LET ids == SetToSeq({id \in ProductIds : /\ ParentOf(id) = 0
                                           /\ w[id].life = "live"
                                           /\ w[id].stock_status = "instock"})
  IN [i \in 1..Len(ids) |-> SourceProduct(w, ids[i])]

\* db/products.ts bulkUpsertProducts(products)
RECURSIVE bulkUpsertProducts(_, _)
bulkUpsertProducts(tbl, ps) ==
  IF ps = <<>> THEN tbl
  ELSE bulkUpsertProducts(upsertProduct(tbl, Head(ps), NoProduct), Tail(ps))

\* initial-sync.ts lines 69-83 and 91-102: one in-stock product or variation
\* becomes a pending sync-status row and a batch item
BulkEmit(d, b, product, parent) ==
  LET metaProduct == mapToMetaProduct(product, parent)
      metaRetailerId == generateMetaRetailerId(product, parent)
      exists == metaRetailerId \in b.catalogState
      b1 == [b EXCEPT !.report.inStock = @ + 1]
      d1 == Mapped(d, product, parent, "bulk")
  IN IF SyncInsertFails(d.products, d.sync, product.id, metaRetailerId)
     THEN [d |-> d1, b |-> BulkEnd(b1, "threw")]
     ELSE [d |-> [d1 EXCEPT !.sync = upsertSyncStatus(@, product.id, metaRetailerId,
                                        [sync_status |-> "pending",
                                         meta_product_exists |-> IF exists THEN 1 ELSE 0])],
           b |-> [b1 EXCEPT !.batchItems = Append(@, createBatchItem(metaProduct, exists)),
                            !.productIdMap = Append(@, <<metaRetailerId, product.id>>)]]

\* initial-sync.ts lines 109-113: send the next chunk, or return the report
BulkFlush(d, b) ==
  IF b.offset < Len(b.batchItems)
  THEN [d |-> Send(d, 0, SubSeq(b.batchItems, b.offset + 1,
                                Min(b.offset + BATCH_SIZE, Len(b.batchItems)))),
        b |-> [b EXCEPT !.pc = "wChunk"]]
  ELSE [d |-> d, b |-> BulkEnd(b, "returned")]

\* initial-sync.ts lines 55-104: the loop over wcProducts, up to its next await
RECURSIVE BulkLoop(_, _)
BulkLoop(d, b) ==
  IF b.pc = "idle" THEN [d |-> d, b |-> b]
  ELSE IF b.idx > Len(b.wcProducts) THEN BulkFlush(d, b)
  ELSE LET product == b.wcProducts[b.idx]
           next == [b EXCEPT !.idx = @ + 1]
       IN IF product.type = "variable" /\ Len(product.variations) > 0
          THEN [d |-> d, b |-> [b EXCEPT !.pc = "wVariations"]]
          ELSE IF product.stock_status = "instock"
          THEN LET r == BulkEmit(d, next, product, NoProduct) IN BulkLoop(r.d, r.b)
          ELSE BulkLoop(d, next)

\* initial-sync.ts lines 64-84: the loop over the variations of one product
RECURSIVE BulkVariations(_, _, _, _)
BulkVariations(d, b, vs, product) ==
  IF vs = <<>> \/ b.pc = "idle" THEN [d |-> d, b |-> b]
  ELSE LET variation == Head(vs)
           d1 == [d EXCEPT !.products = upsertProduct(@, variation, product)]
           r == IF variation.stock_status = "instock"
                THEN BulkEmit(d1, b, variation, product)
                ELSE [d |-> d1, b |-> b]
       IN BulkVariations(r.d, r.b, Tail(vs), product)

ProductIdOf(map, rid) ==
  LET S == {i \in 1..Len(map) : map[i][1] = rid}
  IN IF S = {} THEN 0 ELSE map[CHOOSE i \in S : \A j \in S : j <= i][2]

\* initial-sync.ts lines 137-169 and 173-189: the body of the per-item loop after
\* a chunk's reply; bad is the set of retailer ids the reply flags (empty when
\* the reply has no validation_status).  A refused write leaves the loop (left):
\* the catch of lines 191-194 counts the whole chunk (n items) as errors.
BulkItem(d, b, item, bad, n) ==
  LET productId == ProductIdOf(b.productIdMap, item.retailer_id)
  IN IF item.retailer_id \in bad
     THEN IF productId # 0
             /\ SyncInsertFails(d.products, d.sync, productId, item.retailer_id)
          THEN [d |-> d, b |-> [b EXCEPT !.report.errors = @ + 1 + n], left |-> TRUE]
          ELSE [d |-> [d EXCEPT !.sync = IF productId # 0
                                         THEN upsertSyncStatus(@, productId, item.retailer_id,
                                                [sync_status |-> "error",
                                                 last_error |-> "validation"])
                                         ELSE @],
                b |-> [b EXCEPT !.report.errors = @ + 1],
                left |-> FALSE]
     ELSE [d |-> [d EXCEPT !.sync = IF productId # 0
                                    THEN markSynced(@, item.retailer_id,
                                                    item.availability, item.inventory)
                                    ELSE @],
           b |-> [b EXCEPT !.report.synced = @ + 1,
                           !.report.created = IF item.method = "CREATE" THEN @ + 1 ELSE @,
                           !.report.updated = IF item.method = "CREATE" THEN @ ELSE @ + 1],
           left |-> FALSE]

\* the per-item loop over a chunk, in order.  The loop is unfolded by halves
\* (first half, then the second half unless the loop was left), which keeps the
\* nesting of the evaluation logarithmic in the length of a 1000-item chunk.
RECURSIVE BulkItems(_, _, _, _, _)
BulkItems(d, b, chunk, bad, n) ==
  IF chunk = <<>> THEN [d |-> d, b |-> b, left |-> FALSE]
  ELSE IF Len(chunk) = 1 THEN BulkItem(d, b, chunk[1], bad, n)
  ELSE LET h == Len(chunk) \div 2
           r == BulkItems(d, b, SubSeq(chunk, 1, h), bad, n)
       IN IF r.left THEN r
          ELSE BulkItems(r.d, r.b, SubSeq(chunk, h + 1, Len(chunk)), bad, n)

\* (variant: a chunk that fails ends the run, later chunks are not sent)
AfterChunk_stopOnFailure(d, b, answer, bad) ==
  LET chunk == SubSeq(b.batchItems, b.offset + 1,
                      Min(b.offset + BATCH_SIZE, Len(b.batchItems)))
      next == [b EXCEPT !.offset = @ + BATCH_SIZE,
                        !.reply = [answer |-> answer,
                                   bad |-> IF answer = "valerr" THEN bad ELSE {}]]
      r == IF answer \in {"error", "throw"}
           THEN [d |-> d, b |-> [next EXCEPT !.report.errors = @ + Len(chunk)]]
           ELSE BulkItems(d, next, chunk, IF answer = "valerr" THEN bad ELSE {}, Len(chunk))
  IN IF answer \in {"error", "throw"} THEN [d |-> r.d, b |-> BulkEnd(r.b, "returned")]
     ELSE BulkFlush(r.d, r.b)

\* initial-sync.ts lines 115-182: what follows the reply to one chunk
AfterChunk(d, b, answer, bad) ==
  LET chunk == SubSeq(b.batchItems, b.offset + 1,
                      Min(b.offset + BATCH_SIZE, Len(b.batchItems)))
      next == [b EXCEPT !.offset = @ + BATCH_SIZE,
                        !.reply = [answer |-> answer,
                                   bad |-> IF answer = "valerr" THEN bad ELSE {}]]
      r == IF answer \in {"error", "throw"}
           THEN [d |-> d, b |-> [next EXCEPT !.report.errors = @ + Len(chunk)]]
           ELSE BulkItems(d, next, chunk, IF answer = "valerr" THEN bad ELSE {}, Len(chunk))
  IN BulkFlush(r.d, r.b)

\* ----------------------------------------------------------- feed generator
Styles == {"standard", "christmas"}

\* the CSV side of woocommerce.ts mapToMetaProduct(product, parent?, style).
\* Texts the model does not change (name, description, price, link, image) are
\* named by the product that supplies them; product 3 has no image of its own.
NoImage == <<>>
ImageOf(id) == IF id = 3 THEN NoImage ELSE <<"img", id>>

\* the empty string in a URL column (an item without an image)
EmptyUrl == [price |-> <<>>, name |-> <<>>, img |-> NoImage, style |-> "",
             aspect_ratio |-> ""]

\* woocommerce.ts lines 406-417: the image-service URL, by its query parameters
ImgenUrl(product, title, img, style, ratio) ==
  [price |-> <<"price", product.id>>, name |-> title, img |-> img,
   style |-> style, aspect_ratio |-> ratio]

\* (variant: the columns in another order, inventory before status)
FeedColumns_reordered ==
  <<"id", "title", "description", "rich_text_description", "availability",
    "condition", "price", "link", "image_link", "brand",
    "image[0].url", "image[0].tag[0]", "image[1].url", "image[1].tag[0]",
    "image[2].url", "image[2].tag[0]", "image[2].tag[1]",
    "age_group", "color", "gender", "item_group_id", "google_product_category",
    "product_type", "sale_price", "sale_price_effective_date", "size", "inventory",
    "status">>

\* csv-generator.ts lines 253-261: `columns` of generateFastProductFeed
FeedColumns ==
  <<"id", "title", "description", "rich_text_description", "availability",
    "condition", "price", "link", "image_link", "brand",
    "image[0].url", "image[0].tag[0]", "image[1].url", "image[1].tag[0]",
    "image[2].url", "image[2].tag[0]", "image[2].tag[1]",
    "age_group", "color", "gender", "item_group_id", "google_product_category",
    "product_type", "sale_price", "sale_price_effective_date", "size", "status",
    "inventory">>

\* woocommerce.ts lines 613-637: `columns` of generateProductFeed
ProductFeedColumns ==
  <<"id",
    "title",
    "description",
    "rich_text_description",
    "availability",
    "condition",
    "price",
    "link",
    "image_link",
    "brand",
    "image[0].url",
    "image[0].tag[0]",
    "image[1].url",
    "image[1].tag[0]",
    "image[2].url",
    "image[2].tag[0]",
    "image[2].tag[1]",
    "age_group",
    "color",
    "gender",
    "item_group_id",
    "google_product_category",
    "product_type",
    "sale_price",
    "sale_price_effective_date",
    "size",
    "status",
    "inventory">>

\* woocommerce.ts mapToMetaProduct(product, parent?, style): the whole item,
\* given the title it carries
MetaItemTitled(product, parent, style, title) ==
  LET mainProduct == IF parent # NoProduct THEN parent ELSE product
      mp == mapToMetaProduct(product, parent)
      original_image_link == IF ImageOf(product.id) # NoImage THEN ImageOf(product.id)
                             ELSE ImageOf(mainProduct.id)
      url(ratio) == ImgenUrl(product, <<"name", mainProduct.id>>, original_image_link,
                             style, ratio)
      has == original_image_link # NoImage
  IN [id |-> mp.id, title |-> title,
      description |-> <<"description", product.id>>,
      rich_text_description |-> <<"description", product.id>>,
      availability |-> mp.availability, condition |-> "new",
      price |-> <<"price", product.id>>, link |-> <<"permalink", product.id>>,
      image_link |-> IF has THEN url("1:1") ELSE EmptyUrl, brand |-> "WC_BRAND",
      images |-> [k \in {0, 1, 2} |->
                    IF ~has THEN [url |-> EmptyUrl, tag |-> <<"", "">>]
                    ELSE IF k = 0 THEN [url |-> url("1:1"), tag |-> <<"", "">>]
                    ELSE IF k = 1 THEN [url |-> url("4:5"),
                                        tag |-> <<"ASPECT_RATIO_4_5_PREFERRED", "">>]
                    ELSE [url |-> url("9:16"),
                          tag |-> <<"STORY_PREFERRED", "REELS_PREFERRED">>]],
      age_group |-> "", color |-> "", gender |-> "", size |-> "",
      item_group_id |-> mp.item_group_id, google_product_category |-> "",
      product_type |-> "", sale_price |-> "", status |-> "active",
      inventory |-> mp.inventory]

\* (variant: the style tag also reaches the title)
MetaItem_styledTitle(product, parent, style) ==
  MetaItemTitled(product, parent, style,
                 <<"name", IF parent # NoProduct THEN parent.id ELSE product.id, style>>)

\* woocommerce.ts line 366: const title = mainProduct.name
MetaItem(product, parent, style) ==
  MetaItemTitled(product, parent, style,
                 <<"name", IF parent # NoProduct THEN parent.id ELSE product.id>>)

\* csv-stringify with `columns`: the value a row carries in one column
\* (a column the item does not have is empty)
Cell(item, column) ==
  CASE column = "image[0].url" -> item.images[0].url
    [] column = "image[0].tag[0]" -> item.images[0].tag[1]
    [] column = "image[1].url" -> item.images[1].url
    [] column = "image[1].tag[0]" -> item.images[1].tag[1]
    [] column = "image[2].url" -> item.images[2].url
    [] column = "image[2].tag[0]" -> item.images[2].tag[1]
    [] column = "image[2].tag[1]" -> item.images[2].tag[2]
    [] column \in DOMAIN item -> item[column]
    [] OTHER -> ""

\* stringify(feedItems, {header: true, columns}): header line and data rows
Csv(feedItems, columns) ==
  [header |-> columns,
   rows |-> [i \in 1..Len(feedItems) |->
               [c \in 1..Len(columns) |-> Cell(feedItems[i], columns[c])]]]

\* csv-generator.ts: table product_variations, id -> row
NoVariationRow == [id |-> 0, parent_id |-> 0, stock_status |-> "none",
                   stock_quantity |-> NoQty]

\* csv-generator.ts upsertVariation(variation, parentId)
upsertVariation(vtbl, variation, parentId) ==
  [x \in DOMAIN vtbl \cup {variation.id} |->
     IF x = variation.id
     THEN [id |-> variation.id, parent_id |-> parentId,
           stock_status |-> variation.stock_status,
           stock_quantity |-> variation.stock_quantity]
     ELSE vtbl[x]]

\* product_variations.parent_id REFERENCES products(id) ON DELETE CASCADE:
\* the variation rows that survive when the products table goes from old to new
CascadeVariations(vtbl, old, new) ==
  LET keep == {x \in DOMAIN vtbl : vtbl[x].parent_id \notin (DOMAIN old \ DOMAIN new)}
  IN [x \in keep |-> vtbl[x]]

\* csv-generator.ts dbRowToProduct(row), for a row of either table
dbRowToProduct(row) ==
  [id |-> row.id, parent_id |-> row.parent_id,
   type |-> IF "type" \in DOMAIN row THEN row.type ELSE "none",
   stock_status |-> row.stock_status, stock_quantity |-> row.stock_quantity,
   variations |-> IF "variations" \in DOMAIN row THEN row.variations ELSE <<>>]

RECURSIVE SumQuantities(_, _)
SumQuantities(vtbl, ids) ==
  IF ids = <<>> THEN 0
  ELSE (IF vtbl[Head(ids)].stock_quantity > 0 THEN vtbl[Head(ids)].stock_quantity ELSE 0)
       + SumQuantities(vtbl, Tail(ids))

\* csv-generator.ts lines 228-250: the anchor row of one in-stock variable
\* product followed by the rows of its in-stock cached variations
RECURSIVE InStockVariationItems(_, _, _, _)
InStockVariationItems(vtbl, ids, product, style) ==
  IF ids = <<>> THEN <<>>
  ELSE LET varRow == vtbl[Head(ids)]
           variation == [dbRowToProduct(varRow) EXCEPT !.parent_id = product.id]
       IN (IF varRow.stock_status = "instock"
           THEN <<MetaItem(variation, product, style)>> ELSE <<>>)
          \o InStockVariationItems(vtbl, Tail(ids), product, style)

VariableProductItems(vtbl, row, style) ==
  LET product == dbRowToProduct(row)
      ids == SetToSeq({x \in DOMAIN vtbl : vtbl[x].parent_id = row.id})
      totalInventory == SumQuantities(vtbl, ids)
      hasInStock == \E i \in DOMAIN ids : vtbl[ids[i]].stock_status = "instock"
      item == [MetaItem(product, NoProduct, style) EXCEPT
                 !.inventory = IF totalInventory > 0 THEN totalInventory ELSE NoQty,
                 !.availability = "in stock"]
  IN (IF hasInStock \/ product.stock_status = "instock" THEN <<item>> ELSE <<>>)
     \o InStockVariationItems(vtbl, ids, product, style)

RECURSIVE FlatItems(_, _, _, _)
FlatItems(tbl, vtbl, ids, style) ==
  IF ids = <<>> THEN <<>>
  ELSE VariableProductItems(vtbl, tbl[Head(ids)], style)
       \o FlatItems(tbl, vtbl, Tail(ids), style)

\* csv-generator.ts generateFastProductFeed(style): feedItems
FastFeedItems(tbl, vtbl, style) ==
  LET simpleProducts == SetToSeq({x \in DOMAIN tbl : /\ tbl[x].type # "variable"
                                                    /\ tbl[x].stock_status = "instock"})
      variableProducts == SetToSeq({x \in DOMAIN tbl : /\ tbl[x].type = "variable"
                                                      /\ tbl[x].stock_status = "instock"})
  IN [i \in 1..Len(simpleProducts) |->
        MetaItem(dbRowToProduct(tbl[simpleProducts[i]]), NoProduct, style)]
     \o FlatItems(tbl, vtbl, variableProducts, style)

\* the answer of a feed request that failed
NoFeed == [header |-> <<>>, rows |-> <<>>]

\* csv-generator.ts generateFastProductFeed(style): the CSV, or the throw of
\* lines 204-206 when the products table is empty
generateFastProductFeed(tbl, vtbl, style) ==
  IF DOMAIN tbl = {} THEN [threw |-> TRUE, csv |-> NoFeed]
  ELSE [threw |-> FALSE, csv |-> Csv(FastFeedItems(tbl, vtbl, style), FeedColumns)]

\* csv-generator.ts lines 283-310: the products transaction of
\* refreshAndGenerateFeed (its own INSERT ... ON CONFLICT, retailer id by type)
RECURSIVE refreshUpsertProducts(_, _)
refreshUpsertProducts(tbl, ps) ==
  IF ps = <<>> THEN tbl
  ELSE LET product == Head(ps)
           row == [id |-> product.id, parent_id |-> product.parent_id,
                   type |-> product.type,
                   meta_retailer_id |-> IF product.type = "variable"
                                        THEN WcMain(product.id) ELSE Wc(product.id),
                   stock_status |-> product.stock_status,
                   stock_quantity |-> product.stock_quantity,
                   variations |-> product.variations]
       IN refreshUpsertProducts([x \in DOMAIN tbl \cup {product.id} |->
                                   IF x = product.id THEN row ELSE tbl[x]], Tail(ps))

\* One record per running feed generation that awaits the network: a refresh
\* (refreshAndGenerateFeed) or a non-cached generation (generateProductFeed with
\* its worker).  pc names the call awaited; "done" and "threw" are final.
REFRESH_BATCH_SIZE == 10
IdleRun == [req |-> 0, both |-> FALSE, kind |-> "none", style |-> "standard",
            pc |-> "done", parents |-> <<>>, offset |-> 0, pending |-> {},
            results |-> {}, wcProducts |-> <<>>, idx |-> 1, items |-> <<>>,
            csv |-> NoFeed]

RunEnd(r, how, csv) == [IdleRun EXCEPT !.req = r.req, !.both = r.both, !.kind = r.kind,
                                       !.style = r.style, !.pc = how, !.csv = csv]

\* refreshVariationsCache lines 111-126: start the fetches of the next group of
\* parents, or, after the last group, generate the feed from the cache
RefreshGroup(c, r) ==
  IF r.offset < Len(r.parents)
  THEN [c |-> c,
        r |-> [r EXCEPT !.pc = "wGroup", !.results = {},
                        !.pending = {r.parents[i] :
                                       i \in (r.offset + 1)..Min(r.offset + REFRESH_BATCH_SIZE,
                                                                 Len(r.parents))}]]
  ELSE LET f == generateFastProductFeed(c.products, c.variations, r.style)
       IN [c |-> c, r |-> RunEnd(r, IF f.threw THEN "threw" ELSE "done", f.csv)]

\* refreshVariationsCache lines 104-108: the parents it is going to refresh
refreshVariationsCache(c, r) ==
  LET variableProducts == SetToSeq({x \in DOMAIN c.products :
                                      /\ c.products[x].type = "variable"
                                      /\ c.products[x].variations # <<>>
                                      /\ c.products[x].stock_status = "instock"})
  IN RefreshGroup(c, [r EXCEPT !.parents = variableProducts, !.offset = 0])

\* refreshVariationsCache lines 129-137: the transaction that stores the
\* results of one group; a row whose parent has no products row is refused
\* (foreign key) and the transaction is rolled back
RECURSIVE StoreVariations(_, _, _)
StoreVariations(vtbl, variations, parentId) ==
  IF variations = <<>> THEN vtbl
  ELSE StoreVariations(upsertVariation(vtbl, Head(variations), parentId),
                       Tail(variations), parentId)

RECURSIVE StoreResults(_, _)
StoreResults(vtbl, results) ==
  IF results = <<>> THEN vtbl
  ELSE StoreResults(StoreVariations(vtbl, Head(results).variations, Head(results).parentId),
                    Tail(results))

\* `await Promise.all(promises)`: the results in the order of the group
GroupResults(r) ==
  LET ids == SetToSeq({x.parentId : x \in r.results})
  IN [i \in 1..Len(ids) |-> CHOOSE x \in r.results : x.parentId = ids[i]]

AfterGroup(c, r) ==
  LET results == GroupResults(r)
      refused == \E i \in DOMAIN results : /\ results[i].variations # <<>>
                                           /\ results[i].parentId \notin DOMAIN c.products
  IN IF refused THEN [c |-> c, r |-> RunEnd(r, "threw", NoFeed)]
     ELSE RefreshGroup([c EXCEPT !.variations = StoreResults(@, results)],
                       [r EXCEPT !.offset = @ + REFRESH_BATCH_SIZE, !.results = {}])

\* one variation fetch of the group settles (a failed fetch counts as no variations)
AfterGroupFetch(c, r, w, parentId, answer) ==
  LET variations == IF answer = "ok"
                    THEN FetchedVariations(w, [id |-> parentId]) ELSE <<>>
      r1 == [r EXCEPT !.pending = @ \ {parentId},
                      !.results = @ \cup {[parentId |-> parentId,
                                             variations |-> variations]}]
  IN IF r1.pending = {} THEN AfterGroup(c, r1) ELSE [c |-> c, r |-> r1]

\* worker.ts processChunk: the items of one product that needs no fetch
WorkerSimpleItems(product, style) ==
  LET item == MetaItem(product, NoProduct, style)
  IN IF item.availability = "in stock" THEN <<item>> ELSE <<>>

\* worker.ts processChunk lines 44-70: the items of one variable product
RECURSIVE WorkerVariantItems(_, _, _)
WorkerVariantItems(variations, product, style) ==
  IF variations = <<>> THEN <<>>
  ELSE LET variantItem == MetaItem(Head(variations), product, style)
       IN (IF variantItem.availability = "in stock" THEN <<variantItem>> ELSE <<>>)
          \o WorkerVariantItems(Tail(variations), product, style)

RECURSIVE SumStock(_)
SumStock(variations) ==
  IF variations = <<>> THEN 0
  ELSE (IF Head(variations).stock_quantity > 0 THEN Head(variations).stock_quantity ELSE 0)
       + SumStock(Tail(variations))

WorkerVariableItems(variations, product, style) ==
  LET totalInventory == SumStock(variations)
      hasInStock == \E i \in DOMAIN variations : variations[i].stock_status = "instock"
      item == [MetaItem(product, NoProduct, style) EXCEPT
                 !.inventory = IF totalInventory > 0 THEN totalInventory ELSE NoQty,
                 !.availability = "in stock"]
  IN (IF hasInStock \/ product.stock_status = "instock" THEN <<item>> ELSE <<>>)
     \o WorkerVariantItems(variations, product, style)

\* generateProductFeed with its worker (at most 10 products: one worker): the
\* loop over the fetched products up to the next variation fetch, then the CSV
RECURSIVE WorkerLoop(_, _)
WorkerLoop(c, r) ==
  IF r.idx > Len(r.wcProducts)
  THEN [c |-> c, r |-> RunEnd(r, "done", Csv(r.items, ProductFeedColumns))]
  ELSE LET product == r.wcProducts[r.idx]
       IN IF product.type = "variable" /\ Len(product.variations) > 0
          THEN [c |-> c, r |-> [r EXCEPT !.pc = "wVariations"]]
          ELSE WorkerLoop(c, [r EXCEPT !.idx = @ + 1,
                                        !.items = @ \o WorkerSimpleItems(product, r.style)])

\* what the network can answer to the call a generation waits for
RunAnswers(r, w, parentId) ==
  CASE r.pc = "wProducts" -> {"ok"}
    [] r.pc = "wGroup" -> IF parentId \in ProductIds => IsLive(w, parentId)
                          THEN {"ok"} ELSE {"throw"}
    [] r.pc = "wVariations" -> IF IsLive(w, r.wcProducts[r.idx].id) THEN {"ok"}
                               ELSE {"throw"}
    [] OTHER -> {}

\* a feed generation from one network reply to its next request;
\* c : [products, variations], the tables it may write
RunResume(c, r, w, parentId, answer) ==
  CASE r.pc = "wProducts" /\ answer = "throw" -> [c |-> c, r |-> RunEnd(r, "threw", NoFeed)]
    [] r.pc = "wProducts" /\ r.kind = "refresh" ->
         refreshVariationsCache(
           [c EXCEPT !.products = refreshUpsertProducts(@, FetchedProducts(w))], r)
    [] r.pc = "wProducts" /\ r.kind = "slow" ->
         WorkerLoop(c, [r EXCEPT !.wcProducts = FetchedProducts(w), !.idx = 1])
    [] r.pc = "wGroup" -> AfterGroupFetch(c, r, w, parentId, answer)
    [] r.pc = "wVariations" ->
         LET product == r.wcProducts[r.idx]
         IN WorkerLoop(c, [r EXCEPT
                             !.idx = @ + 1,
                             !.items = IF answer = "throw" THEN @
                                       ELSE @ \o WorkerVariableItems(
                                                   FetchedVariations(w, product),
                                                   product, r.style)])

\* ------------------------------------------------------------ the endpoint
NoTopic == <<>>                 \* the topic header is absent
NoSignature == <<>>             \* the signature header is absent
WC_API_URL == [present |-> TRUE, parses |-> TRUE, scheme |-> "https", host |-> "shop"]
WC_WEBHOOK_SECRET == "secret"

\* a source header: absent, text that `new URL` rejects, or a URL
Sources == {[present |-> FALSE, parses |-> FALSE, scheme |-> "", host |-> ""],
            [present |-> TRUE, parses |-> FALSE, scheme |-> "", host |-> ""],
            [present |-> TRUE, parses |-> TRUE, scheme |-> "https", host |-> "shop"],
            [present |-> TRUE, parses |-> TRUE, scheme |-> "http", host |-> "shop"],
            [present |-> TRUE, parses |-> TRUE, scheme |-> "https", host |-> "elsewhere"]}

\* base64(HMAC-SHA-256(secret, payload)): equal digests exactly for equal inputs
Hmac(secret, payload) == <<"hmac", secret, payload>>

\* webhooks/validator.ts isValidSource(source)
isValidSource(source) ==
  IF ~source.present \/ ~WC_API_URL.present THEN FALSE
  ELSE IF ~source.parses \/ ~WC_API_URL.parses THEN FALSE
  ELSE source.host = WC_API_URL.host

\* webhooks/validator.ts validateWebhookSignature(payload, signature)
validateWebhookSignature(payload, signature) ==
  IF signature = NoSignature \/ WC_WEBHOOK_SECRET = "" THEN FALSE
  ELSE signature = Hmac(WC_WEBHOOK_SECRET, payload)

\* A request body: text that parses to a product object, to null, or not at all.
Body(kind, product) == [kind |-> kind, data |-> product]

\* (variant: a bad signature is logged but the handler goes on)
Proceeds_pastSignature(status) == status \in {200, 401}

\* webhooks/handler.ts handleWebhook(req): every failing check returns at once;
\* only a request that passed them all goes on to the event log and the processor
Proceeds(status) == status = 200

\* (variant: the signature is checked before the source)
handleWebhookStatus_signatureFirst(req) ==
  IF req.topic = NoTopic THEN 400
  ELSE IF ~validateWebhookSignature(req.body, req.signature) THEN 401
  ELSE IF ~isValidSource(req.source) THEN 403
  ELSE IF req.body.kind = "badjson" THEN 400
  ELSE IF req.body.kind = "null" THEN 500
  ELSE 200

\* webhooks/handler.ts handleWebhook(req): the status it answers with
handleWebhookStatus(req) ==
  IF req.topic = NoTopic THEN 400
  ELSE IF ~isValidSource(req.source) THEN 403
  ELSE IF ~validateWebhookSignature(req.body, req.signature) THEN 401
  ELSE IF req.body.kind = "badjson" THEN 400
  ELSE IF req.body.kind = "null" THEN 500
  ELSE 200

\* ------------------------------------------------------------- environment
StockValsOf(id) == IF id = 2 THEN {<<"instock", NoQty>>, <<"outofstock", NoQty>>}
                   ELSE IF id = 1 THEN StockVals \cup {<<"onbackorder", 0>>,
                                                       <<"instock", NoQty>>}
                   ELSE StockVals

\* a variable product carries no quantity of its own
StockValsFor(id, ty) == IF ty = "variable" THEN StockValsOf(2) ELSE StockValsOf(id)

\* What the merchant can do to one product, and the notification the source
\* store pushes for it: [topic, product (the payload), wNext (the store afterwards)].
Notifications(w) ==
  LET Put(id, ty, sv) == [w EXCEPT ![id] = [life |-> "live", type |-> ty,
                                            stock_status |-> sv[1],
                                            stock_quantity |-> sv[2]]]
      Life(id, l) == [w EXCEPT ![id].life = l]
  IN {[topic |-> <<"product", IF w[id].life = "absent" THEN "created" ELSE "updated">>,
       product |-> SourceProduct(Put(id, ty, sv), id), wNext |-> Put(id, ty, sv)] :
         <<id, ty, sv>> \in {x \in ProductIds \X {"simple", "variable", "variation"}
                                    \X (StockValsOf(1) \cup StockValsOf(2)) :
                               /\ w[x[1]].life \in {"absent", "live"}
                               /\ x[2] \in TypesOf(x[1])
                               /\ x[3] \in StockValsFor(x[1], x[2])}}
     \cup {[topic |-> <<"product", "deleted">>, product |-> SourceProduct(w, id),
            wNext |-> Life(id, "trashed")] : id \in {x \in ProductIds : w[x].life = "live"}}
     \cup {[topic |-> <<"product", "restored">>,
            product |-> SourceProduct(Life(id, "live"), id),
            wNext |-> Life(id, "live")] : id \in {x \in ProductIds : w[x].life = "trashed"}}

\* the request the source store sends for a notification
Genuine(n) == [topic |-> n.topic, source |-> WC_API_URL,
               signature |-> Hmac(WC_WEBHOOK_SECRET, Body("object", n.product)),
               body |-> Body("object", n.product)]

\* ... and what else can arrive at the endpoint in its place: any topic, any
\* source header, a signature that is absent, made for this body, made for
\* another body or made with another secret, and a body of any kind
Arrivals(n) ==
  {[topic |-> tp, source |-> src, signature |-> sg[k], body |-> Body(k, n.product)] :
     <<tp, src, sg, k>> \in
        {n.topic, NoTopic, <<"order", "updated">>, <<"product", "published">>}
        \X Sources
        \X {[x \in {"object", "badjson", "null"} |-> NoSignature],
            [x \in {"object", "badjson", "null"} |->
               Hmac(WC_WEBHOOK_SECRET, Body(x, n.product))],
            [x \in {"object", "badjson", "null"} |->
               Hmac(WC_WEBHOOK_SECRET, Body(x, NoProduct))],
            [x \in {"object", "badjson", "null"} |-> Hmac("guess", Body(x, n.product))]}
        \X {"object", "badjson", "null"}}

\* ------------------------------------------------------------------- state
VARIABLES
  wc,          \* the source store: id -> [life, type, stock_status, stock_quantity]
  meta,        \* retailer ids the ad catalog holds
  products,    \* cache store, table products: id -> row
  syncStatus,  \* cache store, table meta_sync_status, in rowid order
  events,      \* cache store, table webhook_events, in rowid order
  tasks,       \* tasks[e]: the processing of event e
  sent,        \* every batch request sent to the ad catalog, in order
  mapped,      \* every call of the mapper
  faults,      \* network calls that have failed so far
  resp,        \* the endpoint's last answer and the request it answered
  bulk,        \* the bulk run
  variations,  \* cache store, table product_variations: id -> row
  gen,         \* feed requests so far, and the generations that await the network
  feeds,       \* the last feed produced for each style
  paging       \* a call of fetchAllProducts: the pages asked for and received

vars == <<wc, meta, products, syncStatus, events, tasks, sent, mapped, faults, resp,
          bulk, variations, gen, feeds, paging>>

NoOut == [kind |-> "none", req |-> 0, csv |-> NoFeed]
IdlePaging == [pc |-> "idle", page |-> 1, allProducts |-> <<>>, requested |-> <<>>,
               pages |-> <<>>, ended |-> "none", result |-> <<>>]
NoGen == [count |-> 0, runs |-> <<>>]

Stores == [products |-> products, sync |-> syncStatus, events |-> events,
           sent |-> sent, mapped |-> mapped]

Init ==
  /\ wc = [id \in ProductIds |->
             IF id = 1 THEN [life |-> "absent", type |-> "simple",
                             stock_status |-> "outofstock", stock_quantity |-> 0]
             ELSE IF id = 2 THEN [life |-> "live", type |-> "variable",
                                  stock_status |-> "instock", stock_quantity |-> NoQty]
             ELSE [life |-> "live", type |-> "variation",
                   stock_status |-> "instock", stock_quantity |-> 1]]
  /\ meta = {}
  /\ products = [x \in {} |-> NoProductRow]
  /\ syncStatus = <<>>
  /\ events = <<>>
  /\ tasks = <<>>
  /\ sent = <<>>
  /\ mapped = {}
  /\ faults = 0
  /\ resp = [status |-> 0, topic |-> FALSE, source |-> FALSE, signature |-> FALSE,
             json |-> FALSE, accepted |-> 0]
  /\ bulk = IdleBulk
  /\ variations = [x \in {} |-> NoVariationRow]
  /\ gen = NoGen
  /\ feeds = [s \in Styles |-> NoOut]
  /\ paging = IdlePaging

\* webhooks/handler.ts handleWebhook(req): the checks, the event row, and the
\* part of processWebhookEvent that runs before the handler returns
HandleWebhook(n, req, cap) ==
  LET status == handleWebhookStatus(req)
      productData == req.body.data
      existingProduct == getProductById(products, productData.id)
      eventId == Len(events) + 1
      d0 == [Stores EXCEPT !.events = logWebhookEvent(@, req.topic, req.topic[2],
                                                      productData, existingProduct)]
      r == processWebhookEvent(d0, [IdleTask EXCEPT !.eid = eventId, !.prod = productData],
                               req.topic, productData)
  IN /\ status = 200 => Len(events) < cap
     /\ resp' = [status |-> status, topic |-> req.topic # NoTopic,
                 source |-> req.source.present /\ req.source.parses
                            /\ req.source.host = WC_API_URL.host,
                 signature |-> req.signature = Hmac(WC_WEBHOOK_SECRET, req.body),
                 json |-> req.body.kind # "badjson",
                 accepted |-> IF status = 200 THEN resp.accepted + 1 ELSE resp.accepted]
     /\ IF Proceeds(status)
        THEN /\ products' = r.d.products
             /\ syncStatus' = r.d.sync
             /\ events' = r.d.events
             /\ sent' = r.d.sent
             /\ mapped' = r.d.mapped
             /\ tasks' = Append(tasks, r.t)
             /\ wc' = IF req = Genuine(n) THEN n.wNext ELSE wc
             /\ variations' = CascadeVariations(variations, products, r.d.products)
        ELSE UNCHANGED <<wc, products, syncStatus, events, tasks, sent, mapped, variations>>
     /\ UNCHANGED <<meta, faults, bulk, gen, feeds, paging>>

\* a notification from the source store arrives
Notify == \E n \in Notifications(wc) : HandleWebhook(n, Genuine(n), MaxEvents)

\* the network answers the call that task e waits for
TaskStep(e) ==
  /\ e \in DOMAIN tasks
  /\ tasks[e].pc # "done"
  /\ \E answer \in Answers(tasks[e], wc, meta) \cup Failures(tasks[e]) :
       LET charged == answer \notin Answers(tasks[e], wc, meta)
           r == Resume(Stores, tasks[e], wc, answer)
       IN /\ charged => faults < MaxFaults
          /\ faults' = IF charged THEN faults + 1 ELSE faults
          /\ meta' = Applied(meta, tasks[e], answer)
          /\ products' = r.d.products
          /\ syncStatus' = r.d.sync
          /\ events' = r.d.events
          /\ sent' = r.d.sent
          /\ mapped' = r.d.mapped
          /\ tasks' = [tasks EXCEPT ![e] = r.t]
          /\ variations' = CascadeVariations(variations, products, r.d.products)
  /\ UNCHANGED <<wc, resp, bulk, gen, feeds, paging>>

\* POST /api/sync/initial: performInitialSync() up to its first await
BulkStart ==
  /\ bulk.pc = "idle"
  /\ bulk.runs < MaxBulk
  /\ bulk' = [IdleBulk EXCEPT !.runs = bulk.runs + 1, !.pc = "wProducts"]
  /\ UNCHANGED <<wc, meta, products, syncStatus, events, tasks, sent, mapped, faults, resp,
                 variations, gen, feeds, paging>>

\* what the network can answer to the call the bulk run is waiting for
BulkAnswers(b, w) ==
  CASE b.pc \in {"wProducts", "wCatalog"} -> {"ok"}
    [] b.pc = "wVariations" -> IF IsLive(w, b.wcProducts[b.idx].id) THEN {"ok"}
                               ELSE {"throw"}
    [] b.pc = "wChunk" -> {"handles", "valid"}
    [] OTHER -> {}

BulkFailures(b) ==
  CASE b.pc \in {"wProducts", "wCatalog", "wVariations"} -> {"throw"}
    [] b.pc = "wChunk" -> {"valerr", "error", "throw"}
    [] OTHER -> {}

\* (variant: a failed variation read skips the product and the run goes on)
BulkResume_skipFailedRead(d, b, w, m, answer, bad) ==
  CASE answer = "throw" /\ b.pc = "wVariations" ->
         BulkLoop(d, [b EXCEPT !.pc = "loop", !.idx = @ + 1])
    [] answer = "throw" /\ b.pc \in {"wProducts", "wCatalog"} ->
         [d |-> d, b |-> BulkEnd(b, "threw")]
    [] answer = "ok" /\ b.pc = "wProducts" ->
         LET wcProducts == FetchedProducts(w)
         IN [d |-> [d EXCEPT !.products = bulkUpsertProducts(@, wcProducts)],
             b |-> [b EXCEPT !.pc = "wCatalog", !.wcProducts = wcProducts,
                             !.report.totalProducts = Len(wcProducts)]]
    [] answer = "ok" /\ b.pc = "wCatalog" ->
         BulkLoop(d, [b EXCEPT !.pc = "loop", !.catalogState = m, !.idx = 1])
    [] answer = "ok" /\ b.pc = "wVariations" ->
         LET product == b.wcProducts[b.idx]
             r == BulkVariations(d, [b EXCEPT !.pc = "loop"],
                                 FetchedVariations(w, product), product)
         IN BulkLoop(r.d, IF r.b.pc = "idle" THEN r.b ELSE [r.b EXCEPT !.idx = @ + 1])
    [] OTHER -> AfterChunk(d, b, answer, bad)

\* performInitialSync() from one network reply to the next request
BulkResume(d, b, w, m, answer, bad) ==
  CASE answer = "throw" /\ b.pc # "wChunk" -> [d |-> d, b |-> BulkEnd(b, "threw")]
    [] answer = "ok" /\ b.pc = "wProducts" ->
         LET wcProducts == FetchedProducts(w)
         IN [d |-> [d EXCEPT !.products = bulkUpsertProducts(@, wcProducts)],
             b |-> [b EXCEPT !.pc = "wCatalog", !.wcProducts = wcProducts,
                             !.report.totalProducts = Len(wcProducts)]]
    [] answer = "ok" /\ b.pc = "wCatalog" ->
         BulkLoop(d, [b EXCEPT !.pc = "loop", !.catalogState = m, !.idx = 1])
    [] answer = "ok" /\ b.pc = "wVariations" ->
         LET product == b.wcProducts[b.idx]
             r == BulkVariations(d, [b EXCEPT !.pc = "loop"],
                                 FetchedVariations(w, product), product)
         IN BulkLoop(r.d, IF r.b.pc = "idle" THEN r.b ELSE [r.b EXCEPT !.idx = @ + 1])
    [] OTHER -> AfterChunk(d, b, answer, bad)

\* the ad catalog applies the CREATEs of a chunk it accepted, except flagged items
AppliedChunk(m, b, answer, bad) ==
  LET chunk == SubSeq(b.batchItems, b.offset + 1,
                      Min(b.offset + BATCH_SIZE, Len(b.batchItems)))
  IN IF b.pc = "wChunk" /\ answer \in {"handles", "valid", "valerr"}
     THEN m \cup {chunk[i].retailer_id : i \in {j \in 1..Len(chunk) :
                                                  /\ chunk[j].method = "CREATE"
                                                  /\ (answer = "valerr" =>
                                                        chunk[j].retailer_id \notin bad)}}
     ELSE m

BulkStep ==
  /\ bulk.pc # "idle"
  /\ \E answer \in BulkAnswers(bulk, wc) \cup BulkFailures(bulk) :
     \E bad \in IF answer = "valerr"
                THEN SUBSET {bulk.batchItems[i].retailer_id :
                               i \in 1..Len(bulk.batchItems)} \ {{}}
                ELSE {{}} :
       LET charged == answer \notin BulkAnswers(bulk, wc)
           r == BulkResume(Stores, bulk, wc, meta, answer, bad)
       IN /\ charged => faults < MaxFaults
          /\ faults' = IF charged THEN faults + 1 ELSE faults
          /\ meta' = AppliedChunk(meta, bulk, answer, bad)
          /\ products' = r.d.products
          /\ syncStatus' = r.d.sync
          /\ sent' = r.d.sent
          /\ mapped' = r.d.mapped
          /\ bulk' = r.b
  /\ UNCHANGED <<wc, events, tasks, resp, variations, gen, feeds, paging>>

\* POST /api/sync/initial once more, after the previous run has ended
BulkRestart ==
  /\ bulk.pc = "idle"
  /\ bulk.runs < MaxRuns
  /\ bulk' = [IdleBulk EXCEPT !.runs = bulk.runs + 1, !.pc = "wProducts",
                              !.before = [sync |-> syncStatus, report |-> bulk.report,
                                          ended |-> bulk.ended]]
  /\ UNCHANGED <<wc, meta, products, syncStatus, events, tasks, sent, mapped, faults, resp,
                 variations, gen, feeds, paging>>

Next ==
  \/ Notify
  \/ \E e \in 1..Len(tasks) : TaskStep(e)
  \/ BulkStart
  \/ BulkStep

Spec == Init /\ [][Next]_vars

\* Every network call the service awaits is answered or fails (fetch settles), so
\* a suspended task is eventually resumed.
NextEvents ==
  \/ Notify
  \/ \E e \in 1..Len(tasks) : TaskStep(e)

FairSpec == Init /\ [][NextEvents]_vars /\ \A e \in 1..MaxEvents : WF_vars(TaskStep(e))

\* The endpoint on its own: anything may arrive, the processor runs, no bulk run.
Arrive ==
  \E n \in Notifications(wc) :
    \E req \in IF n = CHOOSE x \in Notifications(wc) : TRUE
               THEN Arrivals(n) ELSE {Genuine(n)} :
      HandleWebhook(n, req, MaxGateEvents)

NextGate ==
  \/ Arrive
  \/ \E e \in 1..Len(tasks) : TaskStep(e)

SpecGate == Init /\ [][NextGate]_vars

\* Bulk runs in a row over a source store that does not change: any store the
\* merchant may have, a fresh cache, an empty catalog.
SourceStores ==
  {w \in [ProductIds -> [life : {"live", "trashed"},
                         type : {"simple", "variable", "variation"},
                         stock_status : {"instock", "outofstock", "onbackorder"},
                         stock_quantity : {NoQty, 0, 1}]] :
     \A id \in ProductIds :
       /\ w[id].type \in TypesOf(id)
       /\ <<w[id].stock_status, w[id].stock_quantity>> \in StockValsFor(id, w[id].type)}

InitRerun ==
  /\ wc \in SourceStores
  /\ meta = {}
  /\ products = [x \in {} |-> NoProductRow]
  /\ syncStatus = <<>>
  /\ events = <<>>
  /\ tasks = <<>>
  /\ sent = <<>>
  /\ mapped = {}
  /\ faults = 0
  /\ resp = [status |-> 0, topic |-> FALSE, source |-> FALSE, signature |-> FALSE,
             json |-> FALSE, accepted |-> 0]
  /\ bulk = IdleBulk
  /\ variations = [x \in {} |-> NoVariationRow]
  /\ gen = NoGen
  /\ feeds = [s \in Styles |-> NoOut]
  /\ paging = IdlePaging

NextRerun ==
  \/ BulkRestart
  \/ BulkStep

SpecRerun == InitRerun /\ [][NextRerun]_vars

\* ------------------------------------------------------------ feed requests
MaxFeeds == 1         \* feed requests
MaxFeedEvents == 1    \* accepted notifications while feeds are generated
MaxParents == 5       \* further in-stock variable products in the cache

StartRun(kind, style, both) ==
  [IdleRun EXCEPT !.req = gen.count + 1, !.both = both, !.kind = kind, !.style = style,
                  !.pc = "wProducts"]

\* GET /api/catalog/generate (no refresh): generateBothFastFeeds(), both files written
GenerateFast ==
  LET f == [s \in Styles |-> generateFastProductFeed(products, variations, s)]
  IN /\ gen.count < MaxFeeds
     /\ gen' = [gen EXCEPT !.count = @ + 1]
     /\ feeds' = IF \E s \in Styles : f[s].threw THEN feeds
                 ELSE [s \in Styles |-> [kind |-> "fast", req |-> gen.count + 1,
                                         csv |-> f[s].csv]]
     /\ UNCHANGED <<wc, meta, products, syncStatus, events, tasks, sent, mapped, faults,
                    resp, bulk, variations, paging>>

\* GET /api/catalog?style=...: generateFastProductFeed(style), streamed inline
CatalogFast(style) ==
  LET f == generateFastProductFeed(products, variations, style)
  IN /\ gen.count < MaxFeeds
     /\ gen' = [gen EXCEPT !.count = @ + 1]
     /\ feeds' = IF f.threw THEN feeds
                 ELSE [feeds EXCEPT ![style] = [kind |-> "fast", req |-> gen.count + 1,
                                                csv |-> f.csv]]
     /\ UNCHANGED <<wc, meta, products, syncStatus, events, tasks, sent, mapped, faults,
                    resp, bulk, variations, paging>>

\* GET /api/catalog/generate?refresh=true: Promise.all of two refreshAndGenerateFeed
GenerateRefresh ==
  /\ gen.count < MaxFeeds
  /\ gen' = [count |-> gen.count + 1,
             runs |-> gen.runs \o <<StartRun("refresh", "standard", TRUE),
                                    StartRun("refresh", "christmas", TRUE)>>]
  /\ UNCHANGED <<wc, meta, products, syncStatus, events, tasks, sent, mapped, faults,
                 resp, bulk, variations, feeds, paging>>

\* GET /api/catalog/refresh?style=...: refreshAndGenerateFeed(style)
CatalogRefresh(style) ==
  /\ gen.count < MaxFeeds
  /\ gen' = [count |-> gen.count + 1,
             runs |-> Append(gen.runs, StartRun("refresh", style, FALSE))]
  /\ UNCHANGED <<wc, meta, products, syncStatus, events, tasks, sent, mapped, faults,
                 resp, bulk, variations, feeds, paging>>

\* GET /api/catalog?slow=true&style=...: generateProductFeed(style)
CatalogSlow(style) ==
  /\ gen.count < MaxFeeds
  /\ gen' = [count |-> gen.count + 1,
             runs |-> Append(gen.runs, StartRun("slow", style, FALSE))]
  /\ UNCHANGED <<wc, meta, products, syncStatus, events, tasks, sent, mapped, faults,
                 resp, bulk, variations, feeds, paging>>

\* what a generation that ended hands over: its feed is the answer of a
\* single-style request; the two feeds of one generate request are written
\* when both generations have ended well
Settle(runs, i, fds) ==
  LET r == runs[i]
      out(x) == [kind |-> x.kind, req |-> x.req, csv |-> x.csv]
      clear(S) == [j \in DOMAIN runs |-> IF j \in S THEN [runs[j] EXCEPT !.csv = NoFeed]
                                         ELSE runs[j]]
      twin == {j \in DOMAIN runs : j # i /\ runs[j].req = r.req}
  IN IF r.pc # "done" THEN [runs |-> runs, feeds |-> fds]
     ELSE IF ~r.both
     THEN [runs |-> clear({i}), feeds |-> [fds EXCEPT ![r.style] = out(r)]]
     ELSE IF \A j \in twin : runs[j].pc = "done"
     THEN [runs |-> clear(twin \cup {i}),
           feeds |-> [s \in Styles |->
                        out(runs[CHOOSE j \in twin \cup {i} : runs[j].style = s])]]
     ELSE [runs |-> runs, feeds |-> fds]

\* the network answers a call that generation i waits for
RunStep(i) ==
  /\ i \in DOMAIN gen.runs
  /\ gen.runs[i].pc \notin {"done", "threw"}
  /\ \E parentId \in IF gen.runs[i].pc = "wGroup" THEN gen.runs[i].pending ELSE {0} :
     \E answer \in RunAnswers(gen.runs[i], wc, parentId) \cup {"throw"} :
       LET charged == answer \notin RunAnswers(gen.runs[i], wc, parentId)
           res == RunResume([products |-> products, variations |-> variations],
                            gen.runs[i], wc, parentId, answer)
           st == Settle([gen.runs EXCEPT ![i] = res.r], i, feeds)
       IN /\ charged => faults < MaxFaults
          /\ faults' = IF charged THEN faults + 1 ELSE faults
          /\ products' = res.c.products
          /\ variations' = res.c.variations
          /\ gen' = [gen EXCEPT !.runs = st.runs]
          /\ feeds' = st.feeds
  /\ UNCHANGED <<wc, meta, syncStatus, events, tasks, sent, mapped, resp, bulk, paging>>

\* Feeds next to replication: a bulk run, notifications and feed requests.
NotifyFeed == \E n \in Notifications(wc) : HandleWebhook(n, Genuine(n), MaxFeedEvents)

NextFeed ==
  \/ NotifyFeed
  \/ \E e \in 1..Len(tasks) : TaskStep(e)
  \/ BulkStart
  \/ BulkStep
  \/ GenerateFast
  \/ \E style \in Styles : CatalogFast(style)
  \/ GenerateRefresh
  \/ \E style \in Styles : CatalogRefresh(style)
  \/ \E style \in Styles : CatalogSlow(style)
  \/ \E i \in 1..Len(gen.runs) : RunStep(i)

SpecFeed == Init /\ [][NextFeed]_vars

\* Refreshes over a larger cache: next to the products the model follows, the
\* products table holds MaxParents in-stock variable products (ids above 10)
\* whose variations the source store no longer lists.
ManyParents == {10 + k : k \in 1..MaxParents}

InitRefresh ==
  /\ wc = [id \in ProductIds |->
             IF id = 2 THEN [life |-> "live", type |-> "variable",
                             stock_status |-> "instock", stock_quantity |-> NoQty]
             ELSE IF id = 3 THEN [life |-> "live", type |-> "variation",
                                  stock_status |-> "instock", stock_quantity |-> 1]
             ELSE [life |-> "absent", type |-> "simple",
                   stock_status |-> "outofstock", stock_quantity |-> 0]]
  /\ meta = {}
  /\ products = [x \in ManyParents |->
                   [id |-> x, parent_id |-> 0, type |-> "variable",
                    meta_retailer_id |-> WcMain(x), stock_status |-> "instock",
                    stock_quantity |-> NoQty, variations |-> <<100 + x>>]]
  /\ syncStatus = <<>>
  /\ events = <<>>
  /\ tasks = <<>>
  /\ sent = <<>>
  /\ mapped = {}
  /\ faults = 0
  /\ resp = [status |-> 0, topic |-> FALSE, source |-> FALSE, signature |-> FALSE,
             json |-> FALSE, accepted |-> 0]
  /\ bulk = IdleBulk
  /\ variations = [x \in {} |-> NoVariationRow]
  /\ gen = NoGen
  /\ feeds = [s \in Styles |-> NoOut]
  /\ paging = IdlePaging

NextRefresh ==
  \/ GenerateRefresh
  \/ \E style \in Styles : CatalogRefresh(style)
  \/ \E i \in 1..Len(gen.runs) : RunStep(i)

SpecRefresh == InitRefresh /\ [][NextRefresh]_vars

\* -------------------------------------------------------------- chunk phase
MaxItems == 1003      \* batch items of the largest bulk run

\* an in-stock simple product of a large source store
BulkProduct(id) ==
  [id |-> id, type |-> "simple", parent_id |-> 0, stock_status |-> "instock",
   stock_quantity |-> 1, variations |-> <<>>]

BulkProductId(i) == 100 + i

\* batchItems after the product loop has emitted n such products (none of them
\* is in the ad catalog yet)
EmittedItems(n) ==
  [i \in 1..n |-> createBatchItem(mapToMetaProduct(BulkProduct(BulkProductId(i)), NoProduct),
                                  FALSE)]

ItemCounts == {0, 1, BATCH_SIZE - 1, BATCH_SIZE, BATCH_SIZE + 1, BATCH_SIZE + 2, MaxItems}

\* performInitialSync() when its product loop is over: the source store holds n
\* in-stock simple products, every one has its products row, its pending
\* sync-status row and its batch item, and the first chunk has been requested
AfterProductLoop(n) ==
  LET ps == [i \in 1..n |-> BulkProduct(BulkProductId(i))]
      rid(i) == generateMetaRetailerId(ps[i], NoProduct)
      d == [products |-> [id \in {BulkProductId(i) : i \in 1..n} |->
                            upsertProduct(<<>>, BulkProduct(id), NoProduct)[id]],
            sync |-> [i \in 1..n |->
                        upsertSyncStatus(<<>>, ps[i].id, rid(i),
                                         [sync_status |-> "pending",
                                          meta_product_exists |-> 0])[1]],
            events |-> <<>>,
            sent |-> <<>>,
            mapped |-> {[product |-> ps[i], parent |-> NoProduct.id, path |-> "bulk",
                         out |-> mapToMetaProduct(ps[i], NoProduct)] : i \in 1..n}]
      b == [IdleBulk EXCEPT !.runs = 1, !.pc = "loop", !.wcProducts = ps, !.idx = n + 1,
                            !.batchItems = EmittedItems(n),
                            !.productIdMap = [i \in 1..n |-> <<rid(i), ps[i].id>>],
                            !.report.totalProducts = n, !.report.inStock = n]
  IN BulkFlush(d, b)

InitChunks ==
  \E n \in ItemCounts :
    LET r == AfterProductLoop(n)
    IN /\ wc = [id \in {BulkProductId(i) : i \in 1..n} |->
                  [life |-> "live", type |-> "simple", stock_status |-> "instock",
                   stock_quantity |-> 1]]
       /\ meta = {}
       /\ products = r.d.products
       /\ syncStatus = r.d.sync
       /\ events = <<>>
       /\ tasks = <<>>
       /\ sent = r.d.sent
       /\ mapped = r.d.mapped
       /\ faults = 0
       /\ resp = [status |-> 0, topic |-> FALSE, source |-> FALSE, signature |-> FALSE,
                  json |-> FALSE, accepted |-> 0]
       /\ bulk = r.b
       /\ variations = [x \in {} |-> NoVariationRow]
       /\ gen = NoGen
       /\ feeds = [s \in Styles |-> NoOut]
       /\ paging = IdlePaging

\* the ad catalog answers a chunk (any number of chunks may fail); a reply with
\* validation errors flags the first or the last item of the chunk
ChunkStep ==
  /\ bulk.pc = "wChunk"
  /\ \E answer \in BulkAnswers(bulk, wc) \cup BulkFailures(bulk) :
     \E bad \in IF answer = "valerr"
                THEN {{bulk.batchItems[bulk.offset + 1].retailer_id},
                      {bulk.batchItems[Min(bulk.offset + BATCH_SIZE,
                                           Len(bulk.batchItems))].retailer_id}}
                ELSE {{}} :
       LET r == BulkResume(Stores, bulk, wc, meta, answer, bad)
       IN /\ faults' = IF answer \in BulkAnswers(bulk, wc) THEN faults ELSE faults + 1
          /\ meta' = AppliedChunk(meta, bulk, answer, bad)
          /\ products' = r.d.products
          /\ syncStatus' = r.d.sync
          /\ sent' = r.d.sent
          /\ mapped' = r.d.mapped
          /\ bulk' = r.b
  /\ UNCHANGED <<wc, events, tasks, resp, variations, gen, feeds, paging>>

NextChunks == ChunkStep

SpecChunks == InitChunks /\ [][NextChunks]_vars

\* ------------------------------------------------------------------ paging
MaxRows == 210        \* products of the largest source store that is paged
perPage == 100

\* GET /products?page=..&per_page=..: the store lists its products in one fixed
\* order (here by id, the ids being 1..n) and serves the page-th run of perPage
Listing(w) == [i \in 1..Cardinality(DOMAIN w) |-> i]

PageOf(rows, page) ==
  SubSeq(rows, (page - 1) * perPage + 1, Min(page * perPage, Len(rows)))

PageRequest(page) == [page |-> page, per_page |-> perPage]

\* (variant: only an empty page ends the loop)
AfterPage_untilEmpty(p, fetched) ==
  LET got == [p EXCEPT !.pages = Append(@, fetched)]
  IN IF Len(fetched) = 0
     THEN [got EXCEPT !.pc = "idle", !.ended = "returned", !.result = p.allProducts]
     ELSE [got EXCEPT !.allProducts = @ \o fetched, !.page = @ + 1,
                      !.requested = Append(@, PageRequest(p.page + 1))]

\* woocommerce.ts fetchAllProducts, lines 527-547: from the reply to one page to
\* the request of the next page, or to the return
AfterPage(p, fetched) ==
  LET got == [p EXCEPT !.pages = Append(@, fetched)]
  IN IF Len(fetched) = 0
     THEN [got EXCEPT !.pc = "idle", !.ended = "returned", !.result = p.allProducts]
     ELSE IF Len(fetched) < perPage
     THEN [got EXCEPT !.pc = "idle", !.ended = "returned",
                      !.allProducts = @ \o fetched, !.result = p.allProducts \o fetched]
     ELSE [got EXCEPT !.allProducts = @ \o fetched, !.page = @ + 1,
                      !.requested = Append(@, PageRequest(p.page + 1))]

\* a source store of n in-stock simple products, nothing else has happened
InitPaging ==
  \E n \in 0..MaxRows :
    /\ wc = [id \in 1..n |-> [life |-> "live", type |-> "simple",
                              stock_status |-> "instock", stock_quantity |-> 1]]
    /\ meta = {}
    /\ products = [x \in {} |-> NoProductRow]
    /\ syncStatus = <<>>
    /\ events = <<>>
    /\ tasks = <<>>
    /\ sent = <<>>
    /\ mapped = {}
    /\ faults = 0
    /\ resp = [status |-> 0, topic |-> FALSE, source |-> FALSE, signature |-> FALSE,
               json |-> FALSE, accepted |-> 0]
    /\ bulk = IdleBulk
    /\ variations = [x \in {} |-> NoVariationRow]
    /\ gen = NoGen
    /\ feeds = [s \in Styles |-> NoOut]
    /\ paging = IdlePaging

\* fetchAllProducts("/products", params) is called: page 1 is requested
FetchStart ==
  /\ paging.pc = "idle" /\ paging.ended = "none"
  /\ paging' = [IdlePaging EXCEPT !.pc = "wPage", !.requested = <<PageRequest(1)>>]
  /\ UNCHANGED <<wc, meta, products, syncStatus, events, tasks, sent, mapped, faults, resp,
                 bulk, variations, gen, feeds>>

\* the store answers the page that is awaited, or the request fails
\* (fetchWooCommerce throws, and so does fetchAllProducts)
FetchPage ==
  /\ paging.pc = "wPage"
  /\ \/ /\ paging' = AfterPage(paging, PageOf(Listing(wc), paging.page))
        /\ faults' = faults
     \/ /\ faults < MaxFaults
        /\ paging' = [paging EXCEPT !.pc = "idle", !.ended = "threw"]
        /\ faults' = faults + 1
  /\ UNCHANGED <<wc, meta, products, syncStatus, events, tasks, sent, mapped, resp,
                 bulk, variations, gen, feeds>>

NextPaging ==
  \/ FetchStart
  \/ FetchPage

\* fetch() settles: every page request is answered or fails
SpecPaging == InitPaging /\ [][NextPaging]_vars /\ WF_vars(FetchPage)

\* ================================================================== claims
AllItems == UNION {{sent[i].items[j] : j \in DOMAIN sent[i].items} : i \in DOMAIN sent}
IsVariation(product) == product.type = "variation" \/ product.parent_id > 0
Fresh(row) == row.processed = 0 /\ row.error = NullStr
Processed(row) == row.processed = 1 /\ row.error = NullStr
Errored(row) == row.processed = 0 /\ row.error # NullStr

\* C1: for any two accepted events with the same product id, the processing of
\* the later-received one does not begin before the processing of the
\* earlier-received one has completed.
C1_SerializedPerProduct ==
  \A e1, e2 \in DOMAIN tasks :
    (e1 < e2 /\ events[e1].wc_product_id = events[e2].wc_product_id)
      => tasks[e1].pc = "done"

\* C2: the endpoint answers with the status of the first failing check, in the
\* order topic (400), source hostname (403), signature (401), JSON body (400),
\* and answers 200 only when all four checks pass.
C2_FirstFailingCheck ==
  resp.status # 0 =>
    /\ ~resp.topic => resp.status = 400
    /\ (resp.topic /\ ~resp.source) => resp.status = 403
    /\ (resp.topic /\ resp.source /\ ~resp.signature) => resp.status = 401
    /\ (resp.topic /\ resp.source /\ resp.signature /\ ~resp.json) => resp.status = 400
    /\ resp.status = 200 => (resp.topic /\ resp.source /\ resp.signature /\ resp.json)

\* a request failing both the source and the signature check was answered 403
C2_Witness == resp.status = 403 /\ resp.topic /\ ~resp.signature /\ ~resp.json

\* C3: a request rejected with 400, 401 or 403 has no effect: no event row, no
\* change of the products and sync-status tables, no task, no request sent.
C3_RejectedHasNoEffect ==
  [][(resp' # resp /\ resp'.status \in {400, 401, 403})
       => UNCHANGED <<wc, meta, products, syncStatus, events, tasks, sent, mapped,
                      faults, bulk>>]_vars

\* a request was rejected for its signature while an accepted event was on record
C3_Witness == resp.status = 401 /\ Len(events) = 1 /\ Cardinality(DOMAIN products) > 0

\* C4: every accepted notification inserts exactly one event row before the 200
\* is answered; the row is never deleted, changes once, from fresh to either
\* processed or errored (never both), and eventually does so.
C4_EventLifecycle ==
  /\ [](resp.accepted = Len(events))
  /\ [][/\ Len(events') >= Len(events)
        /\ Len(events') > Len(events) => /\ Len(events') = Len(events) + 1
                                         /\ resp'.status = 200
                                         /\ resp'.accepted = resp.accepted + 1
        /\ \A e \in DOMAIN events :
             \/ events'[e] = events[e]
             \/ /\ Fresh(events[e])
                /\ Processed(events'[e]) \/ Errored(events'[e])
                /\ events'[e] = [events[e] EXCEPT !.processed = events'[e].processed,
                                                  !.error = events'[e].error]]_vars
  /\ \A e \in 1..MaxEvents :
       (Len(events) >= e) ~> (Len(events) >= e /\ (Processed(events[e]) \/ Errored(events[e])))

\* one event ended errored and another ended processed
C4_Witness ==
  /\ \E e \in DOMAIN events : Errored(events[e])
  /\ \E e \in DOMAIN events : Processed(events[e])

\* C5: when the work of an accepted event fails because a call to the ad catalog
\* or the source store throws, or a batch reply carries a top-level error, the
\* event row ends with its error set and is not marked processed.
C5_FailureRecordedOnEvent ==
  \A e \in DOMAIN tasks :
    (tasks[e].pc = "done" /\ tasks[e].failed \in {"transport", "toplevel"})
      => Errored(events[e])

\* C6: no batch item with retailer id wc_<id>_main is ever submitted, and an
\* event for a variable product submits items for its variations only.
C6_VariableParentNeverSent ==
  /\ \A it \in AllItems : it.retailer_id \notin {WcMain(id) : id \in ProductIds}
  /\ \A i \in DOMAIN sent :
       (sent[i].by > 0 /\ events[sent[i].by].product_type = "variable")
         => \A j \in DOMAIN sent[i].items :
              sent[i].items[j].retailer_id
                \in {Wc(c) : c \in ChildrenOf(events[sent[i].by].wc_product_id)}

\* C7: every batch item submitted by any path has method CREATE or UPDATE.
C7_NoDeleteMethod == \A it \in AllItems : it.method \in {"CREATE", "UPDATE"}

\* the bulk run submitted a chunk and the handler of a deleted event its stock update
C7_Witness ==
  /\ \E i \in DOMAIN sent : sent[i].by = 0
  /\ \E i \in DOMAIN sent : /\ sent[i].by > 0
                            /\ events[sent[i].by].action_type = "deleted"

\* products of the shape of a variation, and the parents that can be passed with them
VariationShapes ==
  {[id |-> 3, type |-> ty, parent_id |-> pid, stock_status |-> "instock",
    stock_quantity |-> 1, variations |-> <<>>] :
     <<ty, pid>> \in {<<"variation", 0>>, <<"variation", 2>>, <<"simple", 2>>}}
ParentShapes ==
  {NoProduct, [id |-> 2, type |-> "variable", parent_id |-> 0, stock_status |-> "instock",
               stock_quantity |-> NoQty, variations |-> <<3>>]}

\* C8: the retailer id of a variation is wc_<variation-id> wherever one is
\* computed: generateMetaRetailerId with or without the parent, the FromInfo
\* form of the event processor, the copy inside upsertProduct, and the mapper.
C8_VariationRetailerId ==
  /\ \A v \in VariationShapes : \A p \in ParentShapes :
       /\ generateMetaRetailerId(v, p) = Wc(v.id)
       /\ generateMetaRetailerIdFromInfo(v.id, v.type, v.parent_id) = Wc(v.id)
       /\ DbGenerateMetaRetailerId(v, p) = Wc(v.id)
       /\ mapToMetaProduct(v, p).id = Wc(v.id)
  /\ \A m \in mapped : (IsVariation(m.product) \/ m.parent # 0)
                          => m.out.id = Wc(m.product.id)
  /\ \A id \in DOMAIN products : IsVariation(products[id])
                                    => products[id].meta_retailer_id = Wc(id)
  /\ \A i \in DOMAIN syncStatus : ParentOf(syncStatus[i].product_id) > 0
       => syncStatus[i].meta_retailer_id = Wc(syncStatus[i].product_id)
  /\ \A i \in DOMAIN sent :
       (sent[i].by > 0 /\ events[sent[i].by].product_type = "variation")
         => \A j \in DOMAIN sent[i].items :
              sent[i].items[j].retailer_id = Wc(events[sent[i].by].wc_product_id)

\* one variation was mapped by the bulk run and by an event, and is cached
C8_Witness ==
  /\ \E m \in mapped : m.path = "bulk" /\ IsVariation(m.product)
  /\ \E m \in mapped : m.path = "event" /\ IsVariation(m.product)
  /\ \E id \in DOMAIN products : IsVariation(products[id])

\* C9: every item mapped for a variation carries item_group_id = wc_<parent-id>.
C9_VariationGroupId ==
  \A m \in mapped : IsVariation(m.product)
                       => m.out.item_group_id = Wc(ParentOf(m.product.id))

\* C10: every mapped item and every submitted batch item whose inventory is 0
\* has availability "out of stock".
C10_ZeroInventoryOutOfStock ==
  /\ \A m \in mapped : m.out.inventory = 0 => m.out.availability = "out of stock"
  /\ \A it \in AllItems : it.inventory = 0 => it.availability = "out of stock"

\* C11: after any interleaving of bulk runs and events, every sync-status row's
\* product_id is the id of an existing products row, and a sync-status row
\* disappears only in a step that deletes its product.
C11_SyncRowsBackedByProduct ==
  /\ [](\A i \in DOMAIN syncStatus : syncStatus[i].product_id \in DOMAIN products)
  /\ [][\A i \in DOMAIN syncStatus :
          ~HasRid(syncStatus', syncStatus[i].meta_retailer_id)
            => /\ syncStatus[i].product_id \in DOMAIN products
               /\ syncStatus[i].product_id \notin DOMAIN products']_vars

\* a product known to the catalog was deleted with its sync-status row, while the
\* row of another product stays
C11_Witness ==
  \E e \in DOMAIN events :
    /\ events[e].action_type = "deleted"
    /\ Processed(events[e])
    /\ \E i \in DOMAIN sent : sent[i].by = e
    /\ events[e].wc_product_id \notin DOMAIN products
    /\ syncStatus # <<>>

\* C12: every cached variation row (type variation or parent_id > 0) has a
\* parent_id that is the id of a cached products row of type variable, also after
\* an event delivered a variation whose parent was never cached (checked whenever
\* no event and no bulk run is under way).
Quiescent == bulk.pc = "idle" /\ \A e \in DOMAIN tasks : tasks[e].pc = "done"

C12_VariationHasCachedParent ==
  Quiescent =>
    \A id \in DOMAIN products :
      IsVariation(products[id])
        => /\ products[id].parent_id \in DOMAIN products
           /\ products[products[id].parent_id].type = "variable"

\* the rows of the source store that the listing of in-stock products reaches and
\* that are replicated: in-stock simple products, and in-stock variations of
\* listed variable products
InStockReplicable(w) ==
  {id \in ProductIds :
     /\ w[id].life = "live" /\ w[id].stock_status = "instock"
     /\ \/ ParentOf(id) = 0 /\ w[id].type = "simple"
        \/ /\ ParentOf(id) # 0
           /\ w[ParentOf(id)].life = "live"
           /\ w[ParentOf(id)].stock_status = "instock"
           /\ w[ParentOf(id)].type = "variable"}

\* both runs went through without a failing call or a refused item
RerunClean ==
  /\ bulk.runs > 1 /\ bulk.pc = "idle" /\ bulk.ended = "returned"
  /\ bulk.before.ended = "returned" /\ bulk.before.report.errors = 0
  /\ faults = 0

\* C13: when a bulk run completed without error and the catalog applied its items,
\* a second run over the unchanged source reports created = 0, errors = 0 and
\* updated = the number of in-stock replicable rows (in-stock simple products plus
\* in-stock variations).
C13_SecondRunOnlyUpdates ==
  RerunClean =>
    /\ bulk.report.created = 0
    /\ bulk.report.errors = 0
    /\ bulk.report.updated = Cardinality(InStockReplicable(wc))

\* C14: two successive bulk runs with no change in the source store leave the
\* sync-status table identical in every column other than the timestamps (the
\* model's rows carry no timestamps).
C14_RerunLeavesSyncStatus ==
  RerunClean => syncStatus = bulk.before.sync

\* a second clean run has rewritten the rows of two replicated ids
C14_Witness ==
  /\ RerunClean
  /\ Len(syncStatus) >= 2
  /\ bulk.report.updated >= 2
  /\ \E i \in DOMAIN syncStatus : syncStatus[i].last_inventory = NoQty

\* C15: when a bulk run or a targeted sync has finished, by returning or by
\* failing, every id it presented has a sync-status row in state synced or error:
\* no row is left pending once no run is under way.
C15_NoPendingWhenFinished ==
  Quiescent => \A i \in DOMAIN syncStatus : syncStatus[i].sync_status \in {"synced", "error"}

\* the chunk the bulk run is waiting on
CurrentChunk ==
  SubSeq(bulk.batchItems, bulk.offset + 1,
         Min(bulk.offset + BATCH_SIZE, Len(bulk.batchItems)))

\* the sync-status rows, after the step, of the items of that chunk
ChunkRowsAfter ==
  {j \in DOMAIN syncStatus' :
     \E i \in DOMAIN CurrentChunk :
       syncStatus'[j].meta_retailer_id = CurrentChunk[i].retailer_id}

\* C16: in the bulk run, when the reply to a chunk carries a top-level error,
\* every item of that chunk is marked error in sync-status and the report's error
\* counter advances by the size of the chunk.
C16_ChunkErrorMarksItems ==
  [][(bulk.pc = "wChunk" /\ bulk'.pc # "wChunk" /\ bulk'.reply.answer = "error")
       => /\ bulk'.report.errors = bulk.report.errors + Len(CurrentChunk)
          /\ \A j \in ChunkRowsAfter : syncStatus'[j].sync_status = "error"]_vars

\* the sync-status rows, after the step, that carry retailer id rid
RowsAfter(rid) == {j \in DOMAIN syncStatus' : syncStatus'[j].meta_retailer_id = rid}

\* the bulk run consumes a reply that carries validation_status
ValidationBulkStep ==
  (bulk.pc = "wChunk" /\ bulk'.pc # "wChunk" /\ bulk'.reply.answer \in {"valid", "valerr"})
    => \A i \in DOMAIN CurrentChunk : \A j \in RowsAfter(CurrentChunk[i].retailer_id) :
         IF CurrentChunk[i].retailer_id \in bulk'.reply.bad
         THEN /\ syncStatus'[j].sync_status = "error"
              /\ syncStatus'[j].last_error = "validation"
         ELSE /\ syncStatus'[j].sync_status = "synced"
              /\ syncStatus'[j].last_availability = CurrentChunk[i].availability
              /\ syncStatus'[j].last_inventory = CurrentChunk[i].inventory

\* a targeted sync consumes a reply whose validation_status flags its item
ValidationTaskStep ==
  \A e \in DOMAIN tasks :
    (/\ tasks[e].pc \in {"wBatch", "wBatchOOS"}
     /\ tasks[e].failed = "none" /\ tasks'[e].failed = "validation")
      => \A j \in RowsAfter(generateMetaRetailerId(tasks[e].cur, tasks[e].par)) :
           /\ syncStatus'[j].sync_status = "error"
           /\ syncStatus'[j].last_error = "validation"

\* C17: when a batch reply carries a per-item validation-status array, exactly the
\* items whose entry carries errors are marked error, with the joined messages as
\* last error, and every other item of the batch is marked synced with its
\* availability and inventory stamped.
C17_ValidationPerItem == [][ValidationBulkStep /\ ValidationTaskStep]_vars

\* the item of the last request that the processing of event e has sent
LastItemSentBy(e) ==
  LET S == {i \in DOMAIN sent : sent[i].by = e}
  IN sent[CHOOSE i \in S : \A j \in S : j <= i].items[1]

\* the row records success for the item: synced, known remotely, and the
\* availability and inventory of the item as it was sent
StampedAfter(j, item) ==
  /\ syncStatus'[j].sync_status = "synced"
  /\ syncStatus'[j].meta_product_exists = 1
  /\ syncStatus'[j].last_availability = item.availability
  /\ syncStatus'[j].last_inventory = item.inventory

\* C18: a batch reply that carries handles and neither validation-status nor an
\* error marks every item of the batch synced (state synced, exists remotely 1,
\* availability and inventory stamped), in the bulk run and in the targeted path
\* alike.  (For the targeted path the step is one whose call did not fail.)
C18_HandlesMarkSynced ==
  [][/\ (bulk.pc = "wChunk" /\ bulk'.pc # "wChunk" /\ bulk'.reply.answer = "handles")
          => \A i \in DOMAIN CurrentChunk :
               \A j \in RowsAfter(CurrentChunk[i].retailer_id) :
                 StampedAfter(j, CurrentChunk[i])
     /\ \A e \in DOMAIN tasks :
          (/\ tasks[e].pc \in {"wBatch", "wBatchOOS"}
           /\ tasks'[e] # tasks[e]
           /\ faults' = faults)
            => \A j \in RowsAfter(LastItemSentBy(e).retailer_id) :
                 StampedAfter(j, LastItemSentBy(e))]_vars

\* both paths have taken a reply with handles as success
C18_Witness ==
  /\ bulk.reply.answer = "handles" /\ bulk.report.synced >= 1
  /\ \E e \in DOMAIN events :
       /\ Processed(events[e])
       /\ \E i \in DOMAIN sent : sent[i].by = e /\ sent[i].items[1].method = "CREATE"
       /\ \E j \in DOMAIN syncStatus :
            /\ syncStatus[j].product_id = events[e].wc_product_id
            /\ syncStatus[j].sync_status = "synced"
            /\ syncStatus[j].meta_product_exists = 1

\* the product is in stock, and its sync-status row records a successful sync with
\* the availability and the inventory the product has now
UnchangedSince(id, stockStatus, stockQuantity) ==
  LET row == getSyncStatusByProductId(syncStatus, id)
  IN /\ stockStatus = "instock"
     /\ row.sync_status = "synced"
     /\ row.last_availability = "in stock"
     /\ row.last_inventory = stockQuantity

\* C19: the targeted sync of an in-stock product whose availability and inventory
\* are what sync-status recorded at the last successful sync sends no batch
\* request, and an updated event for it ends processed, for every stock quantity
\* including an absent one.  First conjunct: the event of a simple product, handled
\* as it is accepted; second: the event of a variation, after its parent is fetched.
C19_UnchangedIsNoOp ==
  [][/\ Len(events') = Len(events) + 1
          => LET ev == events'[Len(events')]
             IN (/\ ev.action_type = "updated"
                 /\ ev.product_type = "simple"
                 /\ UnchangedSince(ev.wc_product_id, ev.new_stock_status,
                                   ev.new_stock_quantity))
                  => /\ sent' = sent
                     /\ tasks'[Len(events')].pc = "done"
                     /\ Processed(ev)
     /\ \A e \in DOMAIN tasks :
          (/\ tasks[e].pc = "wParent" /\ tasks'[e] # tasks[e]
           /\ events[e].action_type = "updated"
           /\ UnchangedSince(tasks[e].prod.id, tasks[e].prod.stock_status,
                             tasks[e].prod.stock_quantity))
            => /\ sent' = sent
               /\ tasks'[e].pc = "done"
               /\ Processed(events'[e])]_vars

\* sync-status knows the simple product under its retailer id as present remotely
PresentRemotely(id) ==
  LET row == getSyncStatusByProductId(syncStatus, id)
  IN row.meta_product_exists = 1 /\ row.meta_retailer_id = Wc(id)

\* the accepted notification says a simple product is now out of stock
WentOutOfStock(ev) ==
  /\ ev.action_type = "updated"
  /\ ev.product_type = "simple"
  /\ ev.new_stock_status = "outofstock"

GoneFromCache(prodTbl, tbl, id) ==
  /\ id \notin DOMAIN prodTbl
  /\ \A j \in DOMAIN tbl : tbl[j].product_id # id

SendsRequest == Len(sent') = Len(sent) + 1 /\ sent' = Append(sent, sent'[Len(sent')])

\* a request of the bulk run: each item is an UPDATE exactly when its retailer id
\* is in the catalog enumeration of this run
BulkMethodByCatalog ==
  LET r == sent'[Len(sent')]
  IN r.by = 0 => \A i \in DOMAIN r.items :
                   r.items[i].method = "UPDATE" <=> r.items[i].retailer_id \in bulk'.catalogState

\* a request of event processing: it is sent in the step that takes the reply of
\* the lookup by retailer id, and its item is an UPDATE exactly when the lookup
\* returned a row (a row is returned only for an id the catalog holds, and
\* always for such an id unless the lookup failed)
TargetedMethodByLookup ==
  LET r == sent'[Len(sent')]
      e == r.by
  IN r.by # 0 =>
       /\ e \in DOMAIN tasks /\ tasks[e].pc = "wLookup"
       /\ Len(r.items) = 1
       /\ r.items[1].method = "UPDATE" <=> tasks'[e].exists
       /\ tasks'[e].exists => r.items[1].retailer_id \in meta
       /\ faults' = faults => (tasks'[e].exists <=> r.items[1].retailer_id \in meta)

\* C22: whether and how an item is sent is decided by a remote existence check
\* of the same run: a bulk item is an UPDATE iff its retailer id is in the
\* catalog enumeration of the run, an item of event processing is sent after the
\* lookup by retailer id and is an UPDATE iff the lookup returned a row; the
\* stored exists-remotely flag never decides that an UPDATE is sent.
C22_MethodByRemoteCheck ==
  [][SendsRequest => BulkMethodByCatalog /\ TargetedMethodByLookup]_vars

\* the id column of the fast feed generated from the cache as it is
FastFeedIds ==
  LET rows == generateFastProductFeed(products, variations, "standard").csv.rows
  IN [i \in DOMAIN rows |-> rows[i][1]]

InStockVariable(id) ==
  id \in DOMAIN products /\ products[id].type = "variable"
                         /\ products[id].stock_status = "instock"

\* the rows the feed is to have: simple products and variable products in
\* stock, and the in-stock rows of product_variations under such a variable product
ExpectedFeedIds ==
  {Wc(id) : id \in {x \in DOMAIN products : /\ products[x].type = "simple"
                                            /\ products[x].stock_status = "instock"}}
  \cup {WcMain(id) : id \in {x \in DOMAIN products : InStockVariable(x)}}
  \cup {Wc(v) : v \in {x \in DOMAIN variations :
                         /\ variations[x].stock_status = "instock"
                         /\ InStockVariable(variations[x].parent_id)}}

\* ... counting as a cached variation also a variation row of the products table
ExpectedFeedIdsAtMost ==
  ExpectedFeedIds
  \cup {Wc(v) : v \in {x \in DOMAIN products :
                         /\ products[x].type = "variation"
                         /\ products[x].stock_status = "instock"
                         /\ InStockVariable(products[x].parent_id)}}

\* C23: in every cache state the fast feed has exactly one row per in-stock
\* simple product (wc_<id>), one anchor row per in-stock variable product
\* (wc_<id>_main) and one row per in-stock cached variation of such a product
\* (wc_<variation-id>), no other rows, and no retailer id in two rows.
C23_FastFeedRows ==
  /\ \A i, j \in DOMAIN FastFeedIds : FastFeedIds[i] = FastFeedIds[j] => i = j
  /\ ExpectedFeedIds \subseteq {FastFeedIds[i] : i \in DOMAIN FastFeedIds}
  /\ {FastFeedIds[i] : i \in DOMAIN FastFeedIds} \subseteq ExpectedFeedIdsAtMost

\* the column order the feeds are to have
FixedHeader ==
  <<"id", "title", "description", "rich_text_description", "availability", "condition",
    "price", "link", "image_link", "brand", "image[0].url", "image[0].tag[0]",
    "image[1].url", "image[1].tag[0]", "image[2].url", "image[2].tag[0]",
    "image[2].tag[1]", "age_group", "color", "gender", "item_group_id",
    "google_product_category", "product_type", "sale_price",
    "sale_price_effective_date", "size", "status", "inventory">>

\* C24: every feed that is produced, by the fast path, after a refresh or by
\* the non-cached path, in either style, has the same fixed header of 28
\* columns, and every data row has one cell per column.
C24_FixedHeader ==
  /\ Len(FixedHeader) = 28
  /\ \A s \in Styles :
       feeds[s].kind # "none"
         => /\ feeds[s].kind \in {"fast", "refresh", "slow"}
            /\ feeds[s].csv.header = FixedHeader
            /\ \A i \in DOMAIN feeds[s].csv.rows : Len(feeds[s].csv.rows[i]) = 28

\* the non-cached path produced a feed with data rows, and it has the header
\* the fast path writes
C24_Witness ==
  \E s \in Styles :
    /\ feeds[s].kind = "slow"
    /\ Len(feeds[s].csv.rows) > 1
    /\ feeds[s].csv.header = generateFastProductFeed(products, variations, s).csv.header

UrlColumns == {"image_link", "image[0].url", "image[1].url", "image[2].url"}

\* two feeds have the same rows in the same order, equal in every column but
\* the URL columns, where they differ at most in the style parameter, which is
\* the style of the feed
SameButStyle(std, xmas) ==
  /\ std.header = xmas.header
  /\ Len(std.rows) = Len(xmas.rows)
  /\ \A i \in DOMAIN std.rows : \A c \in DOMAIN std.header :
       IF std.header[c] \in UrlColumns
       THEN /\ [std.rows[i][c] EXCEPT !.style = ""] = [xmas.rows[i][c] EXCEPT !.style = ""]
            /\ std.rows[i][c] # EmptyUrl
                 => std.rows[i][c].style = "standard" /\ xmas.rows[i][c].style = "christmas"
       ELSE std.rows[i][c] = xmas.rows[i][c]

\* C25: generated from the same cache contents, the standard feed and the
\* christmas feed have the same rows in the same order and differ only in the
\* style parameter of the image-service URLs (image_link, image[0..2].url).
C25_StyleOnlyInImageUrls ==
  /\ DOMAIN products # {}
       => SameButStyle(generateFastProductFeed(products, variations, "standard").csv,
                       generateFastProductFeed(products, variations, "christmas").csv)
  /\ (/\ feeds["standard"].kind = "fast" /\ feeds["christmas"].kind = "fast"
      /\ feeds["standard"].req = feeds["christmas"].req)
       => SameButStyle(feeds["standard"].csv, feeds["christmas"].csv)

\* one generate request wrote both feeds from the cache, with several rows, and
\* a row's image link carries the style of its feed
C25_Witness ==
  /\ feeds["standard"].kind = "fast" /\ feeds["christmas"].kind = "fast"
  /\ feeds["standard"].req = feeds["christmas"].req
  /\ Len(feeds["standard"].csv.rows) > 1
  /\ \E i \in DOMAIN feeds["standard"].csv.rows :
       /\ feeds["standard"].csv.rows[i][9].style = "standard"
       /\ feeds["christmas"].csv.rows[i][9].style = "christmas"
  /\ \E i \in DOMAIN feeds["standard"].csv.rows :
       feeds["standard"].csv.rows[i][9] = EmptyUrl

\* the variation fetches against the source store that are in flight
InFlight == {<<i, p>> : i \in DOMAIN gen.runs, p \in ProductIds \cup ManyParents}
            \cap {x \in (DOMAIN gen.runs) \X (ProductIds \cup ManyParents) :
                    x[2] \in gen.runs[x[1]].pending}

\* C26: while feeds are generated with refresh, at most 10 variation fetches are
\* in flight at any moment, also when one generate request refreshes both
\* styles; and a generation starts the fetches of its next group only in the
\* step that has written the variations of the group before to the cache.
C26_TenFetchesInFlight ==
  /\ [](Cardinality(InFlight) <= 10)
  /\ [][\A i \in DOMAIN gen.runs :
          (gen'.runs[i].offset > gen.runs[i].offset /\ gen'.runs[i].pc = "wGroup")
            => /\ Cardinality(gen.runs[i].pending) = 1
               /\ \A x \in gen.runs[i].results : \A k \in DOMAIN x.variations :
                    /\ x.variations[k].id \in DOMAIN variations'
                    /\ variations'[x.variations[k].id].parent_id = x.parentId]_vars

\* the accepted notification carries a variation whose parent has no products row
CarriesOrphanVariation(e) ==
  /\ events'[e].action_type \in {"created", "updated", "restored"}
  /\ IsVariation(tasks'[e].prod)
  /\ tasks'[e].prod.parent_id \notin DOMAIN products

\* the parent is fetched: the processing waits for GET /products/<parent>
ParentFetchStarted(e) == tasks'[e].pc = "wParent"

\* the fetch is made once, and when the source store serves the parent every
\* mapping made for the variation has the parent as its context
ParentFetchedOnce ==
  \A e \in DOMAIN tasks :
    /\ tasks[e].pc # "wParent" => tasks'[e].pc # "wParent"
    /\ (/\ tasks[e].pc = "wParent" /\ tasks'[e] # tasks[e] /\ faults' = faults
        /\ IsLive(wc, tasks[e].prod.parent_id))
         => \A x \in mapped' \ mapped : x.parent = tasks[e].prod.parent_id

\* C27: processing a created, updated or restored event that carries a
\* variation whose parent is not in the cache fetches the parent from the source
\* store exactly once, and the variation is then synced with that parent as
\* mapping context.
C27_OrphanVariationFetchesParent ==
  [][/\ Len(events') = Len(events) + 1
          => (CarriesOrphanVariation(Len(events')) => ParentFetchStarted(Len(events')))
     /\ ParentFetchedOnce]_vars

\* the envelopes that left the service, in order
Envelopes == [i \in DOMAIN sent |-> batchUpsertProducts(sent[i].items)]

\* C28: every request of every batch envelope sent to the ad catalog has
\* data.id equal to its top-level retailer_id, for items built by
\* createBatchItem and by updateProductStock, and the envelope's item_type is
\* PRODUCT_ITEM.
C28_DataIdIsRetailerId ==
  \A i \in DOMAIN Envelopes :
    /\ Envelopes[i].item_type = "PRODUCT_ITEM"
    /\ DOMAIN Envelopes[i].requests = DOMAIN sent[i].items
    /\ \A k \in DOMAIN Envelopes[i].requests :
         LET request == Envelopes[i].requests[k]
         IN /\ "id" \in DOMAIN request.data
            /\ request.data.id = request.retailer_id
            /\ request.retailer_id = sent[i].items[k].retailer_id

\* both kinds of item have been sent: a CREATE built by createBatchItem, with
\* its group id in the data block, and a stock update built by updateProductStock
C28_Witness ==
  /\ \E i \in DOMAIN Envelopes : \E k \in DOMAIN Envelopes[i].requests :
       /\ Envelopes[i].requests[k].method = "CREATE"
       /\ "item_group_id" \in DOMAIN Envelopes[i].requests[k].data
       /\ Envelopes[i].requests[k].data.id = Wc(3)
  /\ \E i \in DOMAIN Envelopes :
       /\ sent[i].by # 0
       /\ events[sent[i].by].action_type = "deleted"
       /\ Envelopes[i].requests[1].data.id = Envelopes[i].requests[1].retailer_id

\* the source product a batch item of event e is sent for: the product being
\* synced, or the payload when the handler sends the stock update itself
ItemProductOf(e) ==
  IF tasks'[e].pc \in {"wBatch", "wBatchOOS"} THEN tasks'[e].cur ELSE tasks'[e].prod

\* C29: every batch item submitted for a product carries the mapping of the
\* product's source stock status (instock -> "in stock", onbackorder ->
\* "preorder", anything else -> "out of stock"), and an out-of-stock product is
\* sent with inventory 0.  (The stock update sent for a deleted product is not
\* counted.)
C29_AvailabilityIsMappedStatus ==
  [][SendsRequest =>
       LET r == sent'[Len(sent')]
           want(status) == IF status = "instock" THEN "in stock"
                           ELSE IF status = "onbackorder" THEN "preorder"
                           ELSE "out of stock"
       IN IF r.by = 0
          THEN \A k \in DOMAIN r.items :
                 \E x \in mapped' :
                   /\ x.path = "bulk" /\ x.out.id = r.items[k].retailer_id
                   /\ r.items[k].availability = want(x.product.stock_status)
                   /\ x.product.stock_status = "outofstock" => r.items[k].inventory = 0
          ELSE events'[r.by].action_type # "deleted"
                 => \A k \in DOMAIN r.items :
                      /\ r.items[k].availability = want(ItemProductOf(r.by).stock_status)
                      /\ ItemProductOf(r.by).stock_status = "outofstock"
                           => r.items[k].inventory = 0]_vars

\* the step takes the failure of a read from the source store in the bulk run:
\* the product pages or a variation list did not come back with 2xx
SourceReadFails ==
  /\ bulk.pc \in {"wProducts", "wVariations"}
  /\ bulk' # bulk
  /\ \/ faults' = faults + 1
     \/ bulk.pc = "wVariations" /\ ~IsLive(wc, bulk.wcProducts[bulk.idx].id)

\* C30: when a read from the source store fails during a bulk run the run is
\* aborted: it ends by throwing in that step, the read is not issued again, and
\* the run submits no batch, since no batch is sent before the last source read
\* has been answered and none after the abort.
C30_SourceFailureAbortsRun ==
  [][/\ SourceReadFails
          => /\ bulk'.pc = "idle" /\ bulk'.ended = "threw" /\ bulk'.runs = bulk.runs
             /\ sent' = sent /\ syncStatus' = syncStatus /\ products' = products
     /\ (SendsRequest /\ sent'[Len(sent')].by = 0) => bulk'.pc = "wChunk"
     /\ bulk.pc = "wChunk" => bulk'.pc \in {"wChunk", "idle"}
     /\ (bulk.pc = "wChunk" /\ bulk'.pc = "idle") => bulk'.ended = "returned"]_vars

\* a variation list could not be read after the products had been stored: the
\* run has thrown and nothing was submitted
C30_Witness ==
  /\ bulk.pc = "idle" /\ bulk.ended = "threw" /\ bulk.runs = 1
  /\ faults = 1
  /\ bulk.idx >= 1
  /\ DOMAIN products # {}
  /\ sent = <<>>

\* the k-th slice of 1000 of a list of items
SliceOf(items, k) ==
  SubSeq(items, (k - 1) * BATCH_SIZE + 1, Min(k * BATCH_SIZE, Len(items)))

\* C31: the bulk run submits its emitted items in consecutive chunks of 1000 in
\* emission order: the k-th request carries the k-th slice of the emitted list,
\* so it has between 1 and 1000 items, exactly 1000 unless it is the last slice,
\* and the requests concatenated give the emitted list; the run only returns
\* when every slice has been sent once, whatever the earlier chunks were answered.
C31_ChunksOfThousand ==
  LET emitted == EmittedItems(bulk.report.inStock)
  IN /\ bulk.pc = "wChunk" => bulk.batchItems = emitted
     /\ \A k \in 1..Len(sent) :
          /\ sent[k].by = 0
          /\ sent[k].items = SliceOf(emitted, k)
          /\ Len(sent[k].items) \in 1..BATCH_SIZE
          /\ k * BATCH_SIZE < Len(emitted) => Len(sent[k].items) = BATCH_SIZE
     /\ bulk.pc = "wChunk" => Len(sent) = bulk.offset \div BATCH_SIZE + 1
     /\ bulk.pc = "idle" =>
          /\ bulk.ended = "returned"
          /\ (Len(sent) - 1) * BATCH_SIZE < Len(emitted) \/ Len(sent) = 0
          /\ Len(sent) * BATCH_SIZE >= Len(emitted)

\* a run of more than 1000 items has returned; its first chunk of 1000 failed
\* and the rest was submitted after it
C31_Witness ==
  /\ bulk.pc = "idle" /\ bulk.ended = "returned"
  /\ Len(sent) = 2
  /\ Len(sent[1].items) = BATCH_SIZE
  /\ Len(sent[2].items) = bulk.report.inStock - BATCH_SIZE
  /\ bulk.report.errors >= BATCH_SIZE
  /\ bulk.report.synced >= 1

RECURSIVE Concat(_)
Concat(ss) == IF ss = <<>> THEN <<>> ELSE Head(ss) \o Concat(Tail(ss))

\* C32: fetchAllProducts asks for pages 1, 2, ... of 100 rows, one at a time and
\* in order; every page before the last one received was full; after an empty
\* or short page no further page is asked for and the call returns the pages
\* received, concatenated in order (here: the whole listing of the store); and
\* a call that awaits a page always comes to an end.
C32_PagesInOrderUntilShort ==
  /\ [](/\ \A i \in 1..Len(paging.requested) : paging.requested[i] = PageRequest(i)
        /\ \A i \in 1..Len(paging.pages) - 1 : Len(paging.pages[i]) = perPage
        /\ \A i \in 1..Len(paging.pages) :
             paging.pages[i] = PageOf(Listing(wc), i)
        /\ paging.pc = "wPage"
             => /\ Len(paging.requested) = Len(paging.pages) + 1
                /\ paging.page = Len(paging.requested)
                /\ \A i \in 1..Len(paging.pages) : Len(paging.pages[i]) = perPage
        /\ paging.ended = "returned"
             => /\ Len(paging.requested) = Len(paging.pages)
                /\ Len(paging.pages[Len(paging.pages)]) < perPage
                /\ paging.result = Concat(paging.pages)
                /\ paging.result = Listing(wc))
  /\ (paging.pc = "wPage") ~> (paging.pc = "idle" /\ paging.ended # "none")

\* a store of more than 200 products was read in three pages, the last one short
C32_Witness ==
  /\ paging.ended = "returned"
  /\ Len(paging.pages) = 3
  /\ Len(paging.pages[3]) \in 1..(perPage - 1)
  /\ Len(paging.result) = 2 * perPage + Len(paging.pages[3])

\* event e is a deleted event for a variable product whose processing ends
\* successfully in this step
DeletedParentProcessed(e) ==
  /\ e \in DOMAIN events'
  /\ events'[e].action_type = "deleted"
  /\ events'[e].product_type = "variable"
  /\ Processed(events'[e])
  /\ ~(e \in DOMAIN events /\ Processed(events[e]))

NoVariationRowsOf(p) ==
  \A v \in DOMAIN variations' : variations'[v].parent_id # p

NoProductRowsUnder(p) ==
  \A id \in DOMAIN products' : products'[id].parent_id # p

NoSyncRowsUnder(p) ==
  \A j \in DOMAIN syncStatus' : syncStatus'[j].product_id \notin ChildrenOf(p)

\* C33: when a deleted event for a variable product has been processed, the
\* cache holds no variation of that product any more: no row of the variations
\* table and no row of the products table has it as parent, and no sync-status
\* row belongs to one of its variations.
C33_ParentDeletionRemovesVariations ==
  [][\A e \in 1..MaxEvents :
       DeletedParentProcessed(e)
         => LET p == events'[e].wc_product_id
            IN /\ NoVariationRowsOf(p)
               /\ NoProductRowsUnder(p)
               /\ NoSyncRowsUnder(p)]_vars

\* the part of C33 that holds: the rows of the variations table go with the parent
VariationsTableCascades ==
  [][\A e \in 1..MaxFeedEvents :
       DeletedParentProcessed(e) => NoVariationRowsOf(events'[e].wc_product_id)]_vars

\* the delta columns of an event row
DeltaOf(row) ==
  [old_stock_status |-> row.old_stock_status, new_stock_status |-> row.new_stock_status,
   old_stock_quantity |-> row.old_stock_quantity,
   new_stock_quantity |-> row.new_stock_quantity, stock_change |-> row.stock_change]

\* C34: the delta of an event row is taken from the cache as it is before the
\* event writes: the old status and quantity are those of the products row the
\* step starts with (empty when there is none), the new ones are the payload's,
\* the stock change is new - old when both quantities are present and empty
\* otherwise; and the delta of a stored row never changes.
C34_DeltaFromCacheBeforeWrite ==
  [][/\ Len(events') = Len(events) + 1
          => LET e == Len(events')
                 row == events'[e]
                 payload == SourceProduct(wc', row.wc_product_id)
                 before == getProductById(products, payload.id)
             IN /\ row.product_type = payload.type
                /\ row.old_stock_status = IF payload.id \in DOMAIN products
                                          THEN before.stock_status ELSE NullStr
                /\ row.old_stock_quantity = IF payload.id \in DOMAIN products
                                            THEN before.stock_quantity ELSE NoQty
                /\ row.new_stock_status = payload.stock_status
                /\ row.new_stock_quantity = payload.stock_quantity
                /\ row.stock_change.set = (row.old_stock_quantity # NoQty
                                           /\ row.new_stock_quantity # NoQty)
                /\ row.stock_change.set
                     => row.stock_change.v = row.new_stock_quantity - row.old_stock_quantity
     /\ \A e \in DOMAIN events : DeltaOf(events'[e]) = DeltaOf(events[e])]_vars

\* an event has changed the cached quantity of a product, and its row holds
\* the quantity the cache had before and a stock change that is not zero
C34_Witness ==
  \E e \in DOMAIN events :
    /\ events[e].stock_change.set /\ events[e].stock_change.v # 0
    /\ events[e].old_stock_status # events[e].new_stock_status
    /\ events[e].wc_product_id \in DOMAIN products
    /\ products[events[e].wc_product_id].stock_quantity = events[e].new_stock_quantity

\* the positions in `sent` of the requests that carry an item for retailer id rid
RequestsFor(rid) ==
  {k \in DOMAIN sent : \E j \in DOMAIN sent[k].items : sent[k].items[j].retailer_id = rid}

\* two updated events for the same simple product or variation were accepted,
\* both have been processed without error and without a failing network call,
\* and the payloads carry a quantity
TwoUpdatesSettled ==
  /\ Len(events) = 2
  /\ events[1].wc_product_id = events[2].wc_product_id
  /\ \A e \in 1..2 : /\ events[e].action_type = "updated"
                     /\ events[e].product_type \in {"simple", "variation"}
                     /\ events[e].new_stock_quantity # NoQty
                     /\ Processed(events[e])
                     /\ tasks[e].pc = "done" /\ tasks[e].failed = "none"
  /\ faults = 0

\* C35: when two events for one product were accepted one after the other and
\* both have been processed, the cache and the ad catalog show the second: the
\* products row has its status and quantity, the last item submitted for the
\* retailer id carries the availability and inventory of the second payload,
\* and so do last availability / last inventory of the sync-status row.
C35_LastEventWins ==
  TwoUpdatesSettled
    => LET id == events[2].wc_product_id
           rid == generateMetaRetailerIdFromInfo(id, events[2].product_type, ParentOf(id))
           last == [id |-> id, type |-> events[2].product_type, parent_id |-> ParentOf(id),
                    stock_status |-> events[2].new_stock_status,
                    stock_quantity |-> events[2].new_stock_quantity, variations |-> <<>>]
           want == mapToMetaProduct(last, NoProduct)
           K == RequestsFor(rid)
           k == CHOOSE x \in K : \A y \in K : y <= x
       IN /\ id \in DOMAIN products
          /\ products[id].stock_status = events[2].new_stock_status
          /\ products[id].stock_quantity = events[2].new_stock_quantity
          /\ K # {} => \A j \in DOMAIN sent[k].items :
                         sent[k].items[j].retailer_id = rid
                           => /\ sent[k].items[j].availability = want.availability
                              /\ sent[k].items[j].inventory = want.inventory
          /\ \A j \in DOMAIN syncStatus :
               syncStatus[j].meta_retailer_id = rid
                 => /\ syncStatus[j].last_availability = want.availability
                    /\ syncStatus[j].last_inventory = want.inventory

\* ---------------------------------------------------------------------------------
\* C36: the exists-remotely flag of a sync-status row is a latch: a row whose flag
\* is 1 has flag 1 after every step that keeps the row.
RowOf(tbl, rid) == tbl[CHOOSE i \in 1..Len(tbl) : tbl[i].meta_retailer_id = rid]

C36_ExistsFlagIsLatch ==
  [][\A i \in 1..Len(syncStatus) :
       (/\ syncStatus[i].meta_product_exists = 1
        /\ HasRid(syncStatus', syncStatus[i].meta_retailer_id))
       => RowOf(syncStatus', syncStatus[i].meta_retailer_id).meta_product_exists = 1]_vars

\* ---------------------------------------------------------------------------------
\* C37: for every product id that has both a products row and a sync-status row,
\* the retailer id of the products row equals the retailer id of the sync-status row.
C37_RetailerIdsAgree ==
  \A i \in 1..Len(syncStatus) :
    syncStatus[i].product_id \in DOMAIN products
      => products[syncStatus[i].product_id].meta_retailer_id
           = syncStatus[i].meta_retailer_id

\* ---------------------------------------------------------------------------------
\* C38: every report a bulk run returns has synced = created + updated and
\* synced + errors = inStock = the number of batch items the run emitted.
ReportAddsUp(r, emitted) ==
  /\ r.synced = r.created + r.updated
  /\ r.synced + r.errors = r.inStock
  /\ r.inStock = emitted

\* the step in which a bulk run returns its report; the batch items of the run are
\* those of the state before (the list is complete once the first chunk is sent,
\* and a run that returns without sending a chunk has emitted none)
BulkReturns ==
  bulk.pc # "idle" /\ bulk'.pc = "idle" /\ bulk'.ended = "returned"

C38_ReportAddsUp ==
  [][BulkReturns => ReportAddsUp(bulk'.report, Len(bulk.batchItems))]_vars

\* ---------------------------------------------------------------------------------
\* C39: a sync-status row in state synced has exists-remotely = 1, a non-empty
\* last availability and an empty last error; a row in state error has a
\* non-empty last error.
SyncedRowOk(r) ==
  /\ r.meta_product_exists = 1
  /\ r.last_availability # NullStr
  /\ r.last_error = NullStr

ErrorRowOk(r) == r.last_error # NullStr

C39_RowsMatchTheirState ==
  \A i \in 1..Len(syncStatus) :
    /\ syncStatus[i].sync_status = "synced" => SyncedRowOk(syncStatus[i])
    /\ syncStatus[i].sync_status = "error" => ErrorRowOk(syncStatus[i])

\* a row in state synced next to a row in state error
C39_Witness ==
  /\ \E i \in 1..Len(syncStatus) :
       syncStatus[i].sync_status = "synced" /\ SyncedRowOk(syncStatus[i])
  /\ \E i \in 1..Len(syncStatus) :
       syncStatus[i].sync_status = "error" /\ ErrorRowOk(syncStatus[i])
====
